---- MODULE Spec2Model ----
(***************************************************************************)
(* Schema inference and extraction pipeline for positioned-text bank       *)
(* statements: hypothesis generation (stage 3), validation (stage 4),      *)
(* the Selector (stage 6), the variant retry controller (stage 7), the     *)
(* arbitration interface (stage 8) and the two pipeline call sites         *)
(* (run_pipeline.py and pipeline/core.py: parse_statement).                *)
(*                                                                         *)
(* Numbers.  Layout positions and currency amounts are integers.  A        *)
(* confidence is a fixed-point number in units of 1/ConfOne; ConfOne is a  *)
(* common multiple of every denominator reconciled+errors that can occur,  *)
(* so reconciled/(reconciled+errors), the 1.3 ranking factor and the       *)
(* thresholds 0.9 and 0.95 are all represented exactly.                    *)
(* Python's None is None (-1) for amounts, positions and dates, which are  *)
(* never negative, and a record tagged "none" for schemas and candidates.  *)
(***************************************************************************)
EXTENDS Integers, Sequences, FiniteSets, TLC

None == -1
NoSchema == [type |-> "none"]
NoCandidate == [variant |-> "none"]

\* ------------------------------------------------------------------
\* Bounds of the explored inputs
\* ------------------------------------------------------------------
MaxRows == 13
MaxHead == 2
MaxTail == 2
MaxUndated == 1

\* ------------------------------------------------------------------
\* Program constants
\* ------------------------------------------------------------------
ConfOne == 720720
min_rows == 10
tol == 15
spacing == 15
epsilon == 1
drop_n == 3
drop_min == 6

accept_threshold == (95 * ConfOne) \div 100
retry_threshold == (70 * ConfOne) \div 100
pipeline_threshold == (90 * ConfOne) \div 100

Abs(x) == IF x < 0 THEN -x ELSE x
Max2(a, b) == IF a >= b THEN a ELSE b
Min2(a, b) == IF a <= b THEN a ELSE b

Reverse(s) == [i \in 1..Len(s) |-> s[Len(s) + 1 - i]]

\* dict.get(key): the value, or None when the key is absent
Get(h, k) == IF k \in DOMAIN h THEN h[k] ELSE None

\* ------------------------------------------------------------------
\* Token text.  A text is a date-shaped string (d = 0: matches the date
\* pattern but does not parse), an amount-shaped string (integer value v,
\* sep = written with thousands separators) or a plain word.
\* ------------------------------------------------------------------
DateText(d) == [k |-> "date", d |-> d]
AmtText(v, sep) == [k |-> "amt", v |-> v, sep |-> sep]
WordText == [k |-> "word"]

Tok(text, x0, w) == [text |-> text, x0 |-> x0, x1 |-> x0 + w]

\* stage3 AMOUNT_REGEX.search(text) is not None
IsAmount3(text) == text.k = "amt"

\* stage4 AMOUNT_REGEX.search(text), parsed: \d{1,3}(?:,\d{3})*\.\d{2} has no
\* leading anchor, so an unseparated number matches from its last 3 integer
\* digits on.
ParseAmount4(text) ==
    IF text.k # "amt" THEN None
    ELSE IF text.sep \/ text.v < 1000 THEN text.v
    ELSE text.v % 1000

\* ------------------------------------------------------------------
\* stage4_dates.extract_date: the first date-shaped token of the row,
\* parsed; None when there is none or it does not parse.
\* ------------------------------------------------------------------
RECURSIVE FirstDate(_, _)
FirstDate(row, i) ==
    IF i > Len(row) THEN None
    ELSE IF row[i].text.k = "date"
         THEN (IF row[i].text.d > 0 THEN row[i].text.d ELSE None)
         ELSE FirstDate(row, i + 1)

extract_date(row) == FirstDate(row, 1)

\* ------------------------------------------------------------------
\* stage4_validation.extract_amount
\* ------------------------------------------------------------------
RECURSIVE ExtractFrom(_, _, _)
ExtractFrom(row, target_x, i) ==
    IF i > Len(row) THEN None
    ELSE IF Abs(row[i].x0 - target_x) <= tol /\ ParseAmount4(row[i].text) # None
         THEN ParseAmount4(row[i].text)
         ELSE ExtractFrom(row, target_x, i + 1)

extract_amount(row, target_x) ==
    IF target_x = None THEN None ELSE ExtractFrom(row, target_x, 1)

\* ------------------------------------------------------------------
\* stage3_hypotheses
\* ------------------------------------------------------------------
\* the amount-shaped tokens of a row-set
AmountToks(rows) ==
    UNION { { rows[r][i] : i \in { j \in 1..Len(rows[r]) : IsAmount3(rows[r][j].text) } }
            : r \in 1..Len(rows) }

\* _should_use_right_edge: u1 <= max(2, int(u0 * 0.6))
should_use_right_edge(x0_vals, x1_vals) ==
    LET u0 == Cardinality(x0_vals)
        u1 == Cardinality(x1_vals)
    IN  IF u0 = 0 \/ u1 = 0 THEN FALSE
        ELSE u1 <= Max2(2, (u0 * 6) \div 10)

RECURSIVE SortedSeq(_)
SortedSeq(S) ==
    IF S = {} THEN << >>
    ELSE LET m == CHOOSE x \in S : \A y \in S : x <= y
         IN  << m >> \o SortedSeq(S \ {m})

extract_numeric_columns(rows) ==
    LET toks == AmountToks(rows)
        x0_vals == { w.x0 : w \in toks }
        x1_vals == { w.x1 : w \in toks }
        use_right_edge == should_use_right_edge(x0_vals, x1_vals)
    IN  SortedSeq({ IF use_right_edge THEN w.x1 ELSE w.x0 : w \in toks })

DualSchema(dep, wit, bal) ==
    [type |-> "dual", deposit_x |-> dep, withdrawal_x |-> wit, balance_x |-> bal]

SingleSchema(amt, bal) ==
    [type |-> "single", amount_x |-> amt, balance_x |-> bal]

\* the k-th (0-based) iteration of the loops  for i, bal / for dep / for wit
DualKeep(cols, k) ==
    LET n == Len(cols)
        i == k \div (n * n)
        d == (k \div n) % n
        w == k % n
    IN  /\ d < i /\ w < i
        /\ cols[d + 1] # cols[w + 1]
        /\ ~ (Abs(cols[d + 1] - cols[w + 1]) < spacing)

DualAt(cols, k) ==
    LET n == Len(cols)
    IN  DualSchema(cols[((k \div n) % n) + 1], cols[(k % n) + 1], cols[(k \div (n * n)) + 1])

RECURSIVE DualFrom(_, _)
\* the hypotheses appended by iterations k, k + 1, ... in order
DualFrom(cols, k) ==
    IF k >= Len(cols) * Len(cols) * Len(cols) THEN << >>
    ELSE (IF DualKeep(cols, k) THEN << DualAt(cols, k) >> ELSE << >>)
         \o DualFrom(cols, k + 1)

generate_dual_hypotheses(cols) ==
    DualFrom(cols, 0)

\* the k-th (0-based) iteration of the loops  for i, bal / for amt
SingleKeep(cols, k) ==
    LET n == Len(cols)
        i == k \div n
        a == k % n
    IN  /\ a < i
        /\ ~ (Abs(cols[a + 1] - cols[i + 1]) < spacing)

SingleAt(cols, k) ==
    LET n == Len(cols)
    IN  SingleSchema(cols[(k % n) + 1], cols[(k \div n) + 1])

RECURSIVE SingleFrom(_, _)
SingleFrom(cols, k) ==
    IF k >= Len(cols) * Len(cols) THEN << >>
    ELSE (IF SingleKeep(cols, k) THEN << SingleAt(cols, k) >> ELSE << >>)
         \o SingleFrom(cols, k + 1)

generate_single_amount_hypotheses(cols) ==
    SingleFrom(cols, 0)

\* ------------------------------------------------------------------
\* stage4_validation.validate_hypothesis
\* ------------------------------------------------------------------
\* variant of ValidateRow: a row whose deposit does not reconcile is
\* checked again as a withdrawal
ValidateRow_WithdrawalFallback(row, h, st) ==
    LET bal == extract_amount(row, Get(h, "balance_x"))
        ok  == [st EXCEPT !.reconciled = @ + 1, !.prev = bal]
        err == [st EXCEPT !.errors = @ + 1, !.prev = bal]
    IN  IF bal = None THEN st
        ELSE IF st.prev = None THEN ok
        ELSE IF h.type = "single"
        THEN LET amt == extract_amount(row, Get(h, "amount_x"))
             IN  IF amt = None THEN [st EXCEPT !.prev = bal]
                 ELSE IF \/ Abs(st.prev + amt - bal) <= epsilon
                         \/ Abs(st.prev - amt - bal) <= epsilon
                      THEN ok ELSE err
        ELSE IF h.type = "dual"
        THEN LET dep == extract_amount(row, Get(h, "deposit_x"))
                 wd  == extract_amount(row, Get(h, "withdrawal_x"))
             IN  IF dep # None
                 THEN (IF \/ Abs(st.prev + dep - bal) <= epsilon
                          \/ wd # None /\ Abs(st.prev - wd - bal) <= epsilon
                       THEN ok ELSE err)
                 ELSE IF wd # None
                 THEN (IF Abs(st.prev - wd - bal) <= epsilon THEN ok ELSE err)
                 ELSE ok
        ELSE [st EXCEPT !.prev = bal]

\* variant of ValidateRow: a single-schema row without an amount
\* counts as reconciled
ValidateRow_AmountlessReconciled(row, h, st) ==
    LET bal == extract_amount(row, Get(h, "balance_x"))
        ok  == [st EXCEPT !.reconciled = @ + 1, !.prev = bal]
        err == [st EXCEPT !.errors = @ + 1, !.prev = bal]
    IN  IF bal = None THEN st
        ELSE IF st.prev = None THEN ok
        ELSE IF h.type = "single"
        THEN LET amt == extract_amount(row, Get(h, "amount_x"))
             IN  IF amt = None THEN ok
                 ELSE IF \/ Abs(st.prev + amt - bal) <= epsilon
                         \/ Abs(st.prev - amt - bal) <= epsilon
                      THEN ok ELSE err
        ELSE IF h.type = "dual"
        THEN LET dep == extract_amount(row, Get(h, "deposit_x"))
                 wd  == extract_amount(row, Get(h, "withdrawal_x"))
             IN  IF dep # None
                 THEN (IF Abs(st.prev + dep - bal) <= epsilon THEN ok ELSE err)
                 ELSE IF wd # None
                 THEN (IF Abs(st.prev - wd - bal) <= epsilon THEN ok ELSE err)
                 ELSE ok
        ELSE [st EXCEPT !.prev = bal]

\* variant of ValidateRow: a row that fails its check leaves the
\* previous balance as it was
ValidateRow_PrevKeptOnError(row, h, st) ==
    LET bal == extract_amount(row, Get(h, "balance_x"))
        ok  == [st EXCEPT !.reconciled = @ + 1, !.prev = bal]
        err == [st EXCEPT !.errors = @ + 1]
    IN  IF bal = None THEN st
        ELSE IF st.prev = None THEN ok
        ELSE IF h.type = "single"
        THEN LET amt == extract_amount(row, Get(h, "amount_x"))
             IN  IF amt = None THEN [st EXCEPT !.prev = bal]
                 ELSE IF \/ Abs(st.prev + amt - bal) <= epsilon
                         \/ Abs(st.prev - amt - bal) <= epsilon
                      THEN ok ELSE err
        ELSE IF h.type = "dual"
        THEN LET dep == extract_amount(row, Get(h, "deposit_x"))
                 wd  == extract_amount(row, Get(h, "withdrawal_x"))
             IN  IF dep # None
                 THEN (IF Abs(st.prev + dep - bal) <= epsilon THEN ok ELSE err)
                 ELSE IF wd # None
                 THEN (IF Abs(st.prev - wd - bal) <= epsilon THEN ok ELSE err)
                 ELSE ok
        ELSE [st EXCEPT !.prev = bal]

\* one iteration of the loop body on a row, from the tally st
ValidateRow(row, h, st) ==
    LET bal == extract_amount(row, Get(h, "balance_x"))
        ok  == [st EXCEPT !.reconciled = @ + 1, !.prev = bal]
        err == [st EXCEPT !.errors = @ + 1, !.prev = bal]
    IN  IF bal = None THEN st
        ELSE IF st.prev = None THEN ok
        ELSE IF h.type = "single"
        THEN LET amt == extract_amount(row, Get(h, "amount_x"))
             IN  IF amt = None THEN [st EXCEPT !.prev = bal]
                 ELSE IF \/ Abs(st.prev + amt - bal) <= epsilon
                         \/ Abs(st.prev - amt - bal) <= epsilon
                      THEN ok ELSE err
        ELSE IF h.type = "dual"
        THEN LET dep == extract_amount(row, Get(h, "deposit_x"))
                 wd  == extract_amount(row, Get(h, "withdrawal_x"))
             IN  IF dep # None
                 THEN (IF Abs(st.prev + dep - bal) <= epsilon THEN ok ELSE err)
                 ELSE IF wd # None
                 THEN (IF Abs(st.prev - wd - bal) <= epsilon THEN ok ELSE err)
                 ELSE ok
        ELSE [st EXCEPT !.prev = bal]

RECURSIVE ValidateFrom(_, _, _, _)
ValidateFrom(rows, h, i, st) ==
    IF i > Len(rows) THEN st
    ELSE ValidateFrom(rows, h, i + 1, ValidateRow(rows[i], h, st))

\* variant of validate_hypothesis: every row that did not reconcile is
\* reported as an error, rows without a balance included
validate_hypothesis_CountsAllRows(rows, h) ==
    LET st == ValidateFrom(rows, h, 1, [reconciled |-> 0, errors |-> 0, prev |-> None])
    IN  [reconciled |-> st.reconciled, errors |-> Len(rows) - st.reconciled]

\* variant of validate_hypothesis: mismatching rows are not reported
validate_hypothesis_ErrorsDropped(rows, h) ==
    LET st == ValidateFrom(rows, h, 1, [reconciled |-> 0, errors |-> 0, prev |-> None])
    IN  [reconciled |-> st.reconciled, errors |-> 0]

validate_hypothesis(rows, h) ==
    LET st == ValidateFrom(rows, h, 1, [reconciled |-> 0, errors |-> 0, prev |-> None])
    IN  [reconciled |-> st.reconciled, errors |-> st.errors]

\* ------------------------------------------------------------------
\* stage5_confidence.score_hypothesis (reference scoring of the design:
\* reconciled / (reconciled + errors), 0 when the denominator is 0)
\* ------------------------------------------------------------------
score_hypothesis(res) ==
    IF res.reconciled + res.errors = 0 THEN 0
    ELSE (res.reconciled * ConfOne) \div (res.reconciled + res.errors)

\* ------------------------------------------------------------------
\* stage6_orchestrator.choose_best_hypothesis
\* ------------------------------------------------------------------
\* variant of InsertByDate: the row is appended, the list is left in the
\* order it came in
InsertByDate_Appended(sorted, r) == Append(sorted, r)

\* list.sort(key = date): stable insertion of the rows in list order
RECURSIVE InsertByDate(_, _)
InsertByDate(sorted, r) ==
    IF sorted = << >> THEN << r >>
    ELSE IF extract_date(sorted[Len(sorted)]) <= extract_date(r)
         THEN Append(sorted, r)
         ELSE Append(InsertByDate(SubSeq(sorted, 1, Len(sorted) - 1), r), sorted[Len(sorted)])

RECURSIVE SortFrom(_, _, _)
SortFrom(rows, i, acc) ==
    IF i > Len(rows) THEN acc
    ELSE SortFrom(rows, i + 1, InsertByDate(acc, rows[i]))

\* variant of DatedRows: rows are kept whether or not their date parses
DatedRows_Unfiltered(rows) == rows

DatedRows(rows) == SelectSeq(rows, LAMBDA r : extract_date(r) # None)

SortedDated(rows) == SortFrom(DatedRows(rows), 1, << >>)

\* the entry appended to `evaluated` for hypothesis h
Evaluate(sorted_rows, h) ==
    LET res == validate_hypothesis(sorted_rows, h)
        base_confidence == score_hypothesis(res)
    IN  [schema |-> h,
         total |-> res.reconciled + res.errors,
         \* ranking_score in units of 1/(10 * ConfOne): x 1.3 for dual
         ranking_score |-> IF h.type = "dual" THEN 13 * base_confidence
                           ELSE 10 * base_confidence,
         confidence |-> base_confidence]

\* variant of Survives: the min_rows filter on validated hypotheses is missing
Survives_Always(e) == TRUE

\* lines 44-46: a hypothesis is kept unless total < min_rows
Survives(e) == ~ (e.total < min_rows)

\* variant of MaxByRanking: the maximum is taken on the unscaled confidence
RECURSIVE MaxConfFrom(_, _, _)
MaxConfFrom(ev, i, best) ==
    IF i > Len(ev) THEN best
    ELSE MaxConfFrom(ev, i + 1, IF ev[i].confidence > best.confidence THEN ev[i] ELSE best)

MaxByRanking_ByConfidence(ev) == MaxConfFrom(ev, 2, ev[1])

\* max(evaluated, key = ranking_score): the first entry of maximal key
RECURSIVE MaxFrom(_, _, _)
MaxFrom(ev, i, best) ==
    IF i > Len(ev) THEN best
    ELSE MaxFrom(ev, i + 1, IF ev[i].ranking_score > best.ranking_score THEN ev[i] ELSE best)

MaxByRanking(ev) == MaxFrom(ev, 2, ev[1])

\* what choose_best_hypothesis returns for the selected entry
Selected(best) ==
    [schema |-> best.schema,
     confidence |-> Min2(ConfOne, Max2(0, best.confidence))]

\* One call of choose_best_hypothesis(rows): the returned pair together
\* with the hypotheses it generated and the entries it kept.
choose_best_hypothesis(rows) ==
    LET dated == DatedRows(rows)
        rejected == [schema |-> NoSchema, confidence |-> 0,
                     hyps |-> << >>, evaluated |-> << >>]
    IN  IF Len(dated) < min_rows THEN rejected
        ELSE
        LET sorted_rows == SortFrom(dated, 1, << >>)
            cols == extract_numeric_columns(sorted_rows)
            hyps == generate_dual_hypotheses(cols) \o generate_single_amount_hypotheses(cols)
            all  == [i \in 1..Len(hyps) |-> Evaluate(sorted_rows, hyps[i])]
            evaluated == SelectSeq(all, Survives)
        IN  IF evaluated = << >>
            THEN [rejected EXCEPT !.hyps = hyps]
            ELSE LET sel == Selected(MaxByRanking(evaluated))
                 IN  [schema |-> sel.schema, confidence |-> sel.confidence,
                      hyps |-> hyps, evaluated |-> evaluated]

\* ------------------------------------------------------------------
\* stage7_retry.retry_with_variants
\* ------------------------------------------------------------------
\* variant of Variants: the trimmed variants are built from 6 rows on
Variants_DropsFromSix(rows) ==
    << [name |-> "original", rows |-> rows],
       [name |-> "reversed", rows |-> Reverse(rows)] >>
    \o (IF Len(rows) >= drop_min
        THEN << [name |-> "drop_first_3", rows |-> SubSeq(rows, drop_n + 1, Len(rows))] >>
        ELSE << >>)
    \o (IF Len(rows) >= drop_min
        THEN << [name |-> "drop_last_3", rows |-> SubSeq(rows, 1, Len(rows) - drop_n)] >>
        ELSE << >>)

\* lines 13-27: the variants, in evaluation order
Variants(rows) ==
    << [name |-> "original", rows |-> rows],
       [name |-> "reversed", rows |-> Reverse(rows)] >>
    \o (IF Len(rows) > drop_min
        THEN << [name |-> "drop_first_3", rows |-> SubSeq(rows, drop_n + 1, Len(rows))] >>
        ELSE << >>)
    \o (IF Len(rows) > drop_min
        THEN << [name |-> "drop_last_3", rows |-> SubSeq(rows, 1, Len(rows) - drop_n)] >>
        ELSE << >>)

Candidate(schema, confidence, name) ==
    [schema |-> schema, confidence |-> confidence, variant |-> name]

Accepted(schema, confidence, name) ==
    [decision |-> "accepted", schema |-> schema, confidence |-> confidence, variant |-> name]

\* variant of Decide: the retry_threshold test comes first
Decide_ThresholdFirst(cands, rt) ==
    IF cands # << >> /\ cands[1].confidence >= rt
    THEN Accepted(cands[1].schema, cands[1].confidence, cands[1].variant)
    ELSE IF Len(cands) >= 1
    THEN [decision |-> "needs_arbitration", candidates |-> cands]
    ELSE [decision |-> "rejected"]

\* lines 55-69: the outcome once the loop has ended without an early accept
Decide(cands, rt) ==
    IF Len(cands) >= 1
    THEN [decision |-> "needs_arbitration", candidates |-> cands]
    ELSE IF cands # << >> /\ cands[1].confidence >= rt
    THEN Accepted(cands[1].schema, cands[1].confidence, cands[1].variant)
    ELSE [decision |-> "rejected"]

\* ------------------------------------------------------------------
\* stage8_llm_arbitration.llm_arbitrate
\* ------------------------------------------------------------------
\* What the oracle call does, one per way the try block can go:
\*   timeout     requests.post raises (connection error or timeout)
\*   http_error  raise_for_status raises
\*   not_json    resp.json() raises
\*   no_braces   the response text contains no "{"
\*   bad_json    json.loads raises on the text between the braces
\*   missing     the object has no winner_index
\*   float, string   winner_index is a JSON non-integer number or a string
\*   int         winner_index is the JSON integer idx
\*   bool        winner_index is JSON false (idx = 0) or true (idx = 1);
\*               Python's bool is a subclass of int
ReplyKinds == { "timeout", "http_error", "not_json", "no_braces", "bad_json",
                "missing", "float", "string", "int", "bool" }

Raises(reply) == reply.kind \in { "timeout", "http_error", "not_json", "bad_json" }

\* isinstance(idx, int)
IsInstanceInt(reply) == reply.kind \in { "int", "bool" }

\* variant of llm_arbitrate: the winner carries a confidence taken from the
\* oracle's answer instead of the candidate's own
llm_arbitrate_TrustsOracle(cands, enabled, reply) ==
    IF ~ enabled \/ Len(cands) < 2 \/ reply.kind \notin { "int", "bool" } THEN NoCandidate
    ELSE IF reply.idx < 0 \/ reply.idx >= Len(cands) THEN NoCandidate
    ELSE [cands[reply.idx + 1] EXCEPT !.confidence = ConfOne]

\* the hard guards (lines 39-43) let the call reach requests.post
Requests(cands, enabled) == enabled /\ ~ (Len(cands) < 2)

llm_arbitrate(cands, enabled, reply) ==
    IF ~ enabled THEN NoCandidate
    ELSE IF Len(cands) < 2 THEN NoCandidate
    ELSE IF Raises(reply) THEN NoCandidate
    ELSE IF reply.kind = "no_braces" THEN NoCandidate
    ELSE IF ~ IsInstanceInt(reply) THEN NoCandidate
    ELSE IF reply.idx < 0 \/ reply.idx >= Len(cands) THEN NoCandidate
    ELSE cands[reply.idx + 1]

\* ------------------------------------------------------------------
\* stage9_extraction
\* ------------------------------------------------------------------
\* a word containing one of SUMMARY_KEYWORDS ("interest", "total", ...)
SummaryText == [k |-> "summary"]

\* an amount with a "(Cr)" or "(Dr)" suffix in the same token
MarkedText(v, mark) == [k |-> "amt", v |-> v, sep |-> TRUE, mark |-> mark]

is_summary_row(row) == \E i \in 1..Len(row) : row[i].text.k = "summary"

\* CR_REGEX / DR_REGEX.search(text)
HasMark(text, mark) == "mark" \in DOMAIN text /\ text.mark = mark

\* extract_explicit_dr_cr: the first token outside the balance column that
\* carries a marker; (None, None) when there is none
RECURSIVE ExplicitFrom(_, _, _)
ExplicitFrom(row, balance_x, i) ==
    IF i > Len(row) THEN [deposit |-> None, withdrawal |-> None]
    ELSE IF Abs(row[i].x0 - balance_x) <= tol THEN ExplicitFrom(row, balance_x, i + 1)
    ELSE IF HasMark(row[i].text, "cr") THEN [deposit |-> row[i].text.v, withdrawal |-> 0]
    ELSE IF HasMark(row[i].text, "dr") THEN [deposit |-> 0, withdrawal |-> row[i].text.v]
    ELSE ExplicitFrom(row, balance_x, i + 1)

extract_explicit_dr_cr(row, balance_x) == ExplicitFrom(row, balance_x, 1)

\* variant of DualColumns: the withdrawal column is read before the deposit
\* column
DualColumns_WithdrawalFirst(row, sch, dw) ==
    IF dw.deposit = None /\ dw.withdrawal = None /\ sch.type = "dual"
    THEN LET dep == extract_amount(row, Get(sch, "deposit_x"))
             wd  == extract_amount(row, Get(sch, "withdrawal_x"))
         IN  IF wd # None THEN [deposit |-> 0, withdrawal |-> wd]
             ELSE IF dep # None THEN [deposit |-> dep, withdrawal |-> 0]
             ELSE dw
    ELSE dw

\* lines 115-122: the Dual columns, when no marker decided
DualColumns(row, sch, dw) ==
    IF dw.deposit = None /\ dw.withdrawal = None /\ sch.type = "dual"
    THEN LET dep == extract_amount(row, Get(sch, "deposit_x"))
             wd  == extract_amount(row, Get(sch, "withdrawal_x"))
         IN  IF dep # None THEN [deposit |-> dep, withdrawal |-> 0]
             ELSE IF wd # None THEN [deposit |-> 0, withdrawal |-> wd]
             ELSE dw
    ELSE dw

\* variant of BalanceDelta: the change of balance is booked as a deposit
\* whatever its sign
BalanceDelta_Unsigned(balance, prev_balance, dw) ==
    IF dw.deposit = None /\ dw.withdrawal = None
    THEN IF prev_balance # None
         THEN [deposit |-> balance - prev_balance, withdrawal |-> 0]
         ELSE [deposit |-> 0, withdrawal |-> 0]
    ELSE dw

\* lines 125-133: the balance delta, when neither marker nor column decided
BalanceDelta(balance, prev_balance, dw) ==
    IF dw.deposit = None /\ dw.withdrawal = None
    THEN IF prev_balance # None
         THEN LET delta == balance - prev_balance
              IN  IF delta >= 0 THEN [deposit |-> delta, withdrawal |-> 0]
                  ELSE [deposit |-> 0, withdrawal |-> -delta]
         ELSE [deposit |-> 0, withdrawal |-> 0]
    ELSE dw

\* round(x, 2): amounts are whole currency units here, which round(., 2)
\* leaves as they are
Round2(x) == x

\* round(confidence, 3), in thousandths
Round3(c) == (2000 * c + ConfOne) \div (2 * ConfOne)

\* the dict appended for a row; `row` is the position of the row in the list
\* handed to extract_transactions (kept to tell the transactions apart, not a
\* key of the code's dict); description and source_pdf are left out
Transaction(i, date, dw, balance, confidence) ==
    [row |-> i,
     date |-> date,
     amount |-> Round2(dw.deposit - dw.withdrawal),
     deposit |-> Round2(dw.deposit),
     withdrawal |-> Round2(dw.withdrawal),
     balance |-> Round2(balance),
     confidence |-> Round3(confidence)]

\* the loop of lines 94-153 from row i on, with prev_balance = prev
RECURSIVE ExtractTransactionsFrom(_, _, _, _, _)
ExtractTransactionsFrom(rs, sch, confidence, i, prev) ==
    IF i > Len(rs) THEN << >>
    ELSE LET row == rs[i]
             date == extract_date(row)
             balance == extract_amount(row, Get(sch, "balance_x"))
         IN  IF is_summary_row(row) \/ date = None \/ balance = None
             THEN ExtractTransactionsFrom(rs, sch, confidence, i + 1, prev)
             ELSE LET dw == BalanceDelta(balance, prev,
                               DualColumns(row, sch,
                                   extract_explicit_dr_cr(row, Get(sch, "balance_x"))))
                  IN  << Transaction(i, date, dw, balance, confidence) >>
                      \o ExtractTransactionsFrom(rs, sch, confidence, i + 1, balance)

extract_transactions(rs, sch, confidence) ==
    ExtractTransactionsFrom(rs, sch, confidence, 1, None)

\* ------------------------------------------------------------------
\* stage2_tables.py: the Row Assembler
\* ------------------------------------------------------------------
Y_TOL == 8
MERGE_GAP == Y_TOL * 2
MAX_MERGE_LINES == 3

\* a positioned word as the assembler reads it: text, y, page
Word(text, y, page) == [text |-> text, y |-> y, page |-> page]

has_date(row) == \E i \in 1..Len(row) : row[i].text.k = "date"

count_amounts(row) == Cardinality({ i \in 1..Len(row) : row[i].text.k = "amt" })

is_transaction_row(row) == has_date(row) /\ count_amounts(row) >= 2

RECURSIVE SumY(_, _)
SumY(row, i) == IF i > Len(row) THEN 0 ELSE row[i].y + SumY(row, i + 1)

\* sum(y) / len(row), kept as a fraction; 0 for an empty row
group_y(row) ==
    IF row = << >> THEN [num |-> 0, den |-> 1]
    ELSE [num |-> SumY(row, 1), den |-> Len(row)]

\* variant of GapExceeds: a gap of exactly MERGE_GAP already stops the merge
GapExceeds_AtMergeGap(next_y, last_group_y) ==
    next_y.num * last_group_y.den - last_group_y.num * next_y.den
        >= MERGE_GAP * next_y.den * last_group_y.den

\* gap = _group_y(next_group) - last_group_y; gap > MERGE_GAP
GapExceeds(next_y, last_group_y) ==
    next_y.num * last_group_y.den - last_group_y.num * next_y.den
        > MERGE_GAP * next_y.den * last_group_y.den

\* by_page: the pages in the order of their first word
RECURSIVE PagesFrom(_, _, _)
PagesFrom(ws, i, acc) ==
    IF i > Len(ws) THEN acc
    ELSE PagesFrom(ws, i + 1,
                   IF \E k \in 1..Len(acc) : acc[k] = ws[i].page
                   THEN acc ELSE Append(acc, ws[i].page))

PageWords(ws, page) == SelectSeq(ws, LAMBDA w : w.page = page)

\* page_words.sort(key = y), stable
RECURSIVE InsertByY(_, _)
InsertByY(sorted, w) ==
    IF sorted = << >> THEN << w >>
    ELSE IF sorted[Len(sorted)].y <= w.y
         THEN Append(sorted, w)
         ELSE Append(InsertByY(SubSeq(sorted, 1, Len(sorted) - 1), w), sorted[Len(sorted)])

RECURSIVE SortByY(_, _, _)
SortByY(ws, i, acc) ==
    IF i > Len(ws) THEN acc
    ELSE SortByY(ws, i + 1, InsertByY(acc, ws[i]))

\* base line grouping: a word joins the current line when it is within
\* Y_TOL of the word before it
RECURSIVE GroupFrom(_, _, _, _, _)
GroupFrom(ws, i, groups, current_row, last_y) ==
    LET closed == IF current_row # << >> THEN Append(groups, current_row) ELSE groups
    IN  IF i > Len(ws) THEN closed
        ELSE IF last_y = None \/ Abs(ws[i].y - last_y) <= Y_TOL
             THEN GroupFrom(ws, i + 1, groups, Append(current_row, ws[i]), ws[i].y)
             ELSE GroupFrom(ws, i + 1, closed, << ws[i] >>, ws[i].y)

LineGroups(page_words) == GroupFrom(SortByY(page_words, 1, << >>), 1, << >>, << >>, None)

\* variant of MergeFrom: the merge does not stop at a line with a date of
\* its own
RECURSIVE MergeFrom_AbsorbsDated(_, _, _, _, _)
MergeFrom_AbsorbsDated(groups, j, merged, merged_lines, last_group_y) ==
    IF j > Len(groups) THEN << >>
    ELSE IF merged_lines >= MAX_MERGE_LINES THEN << >>
    ELSE IF GapExceeds(group_y(groups[j]), last_group_y) THEN << >>
    ELSE LET extended == merged \o groups[j]
         IN  IF is_transaction_row(extended) THEN << extended >>
             ELSE MergeFrom_AbsorbsDated(groups, j + 1, extended, merged_lines + 1,
                                         group_y(groups[j]))

\* the inner loop of the merge pass from line j on: the candidate appended,
\* if any
RECURSIVE MergeFrom(_, _, _, _, _)
MergeFrom(groups, j, merged, merged_lines, last_group_y) ==
    IF j > Len(groups) THEN << >>
    ELSE IF merged_lines >= MAX_MERGE_LINES THEN << >>
    ELSE IF has_date(groups[j]) THEN << >>
    ELSE IF GapExceeds(group_y(groups[j]), last_group_y) THEN << >>
    ELSE LET extended == merged \o groups[j]
         IN  IF is_transaction_row(extended) THEN << extended >>
             ELSE MergeFrom(groups, j + 1, extended, merged_lines + 1, group_y(groups[j]))

\* the merge pass: date lines that are no transaction row by themselves
RECURSIVE MergePass(_, _)
MergePass(groups, i) ==
    IF i > Len(groups) THEN << >>
    ELSE (IF ~ has_date(groups[i]) \/ is_transaction_row(groups[i]) THEN << >>
          ELSE MergeFrom(groups, i + 1, groups[i], 1, group_y(groups[i])))
         \o MergePass(groups, i + 1)

PageCandidates(groups) == SelectSeq(groups, is_transaction_row) \o MergePass(groups, 1)

RECURSIVE CandidatesFrom(_, _, _)
CandidatesFrom(ws, pages, k) ==
    IF k > Len(pages) THEN << >>
    ELSE PageCandidates(LineGroups(PageWords(ws, pages[k]))) \o CandidatesFrom(ws, pages, k + 1)

detect_candidate_rows(ws) == CandidatesFrom(ws, PagesFrom(ws, 1, << >>), 1)

\* the line groups of each page, in the order the pages are processed
AllLineGroups(ws) ==
    LET pages == PagesFrom(ws, 1, << >>)
    IN  [k \in 1..Len(pages) |-> LineGroups(PageWords(ws, pages[k]))]

\* ------------------------------------------------------------------
\* Explored inputs: statements of n rows (date, narration, one amount in the
\* deposit or the withdrawal column, optionally a fee column, balance) whose
\* balances are the running sum, with h wrong amounts after the first row,
\* t wrong amounts at the end, u rows whose date does not parse, listed
\* oldest-first or newest-first, with distinct dates or one shared date.
\* ------------------------------------------------------------------
Layouts ==
    { [name |-> "dual",  dep |-> 100, wd |-> 200, fee |-> None, bal |-> 300, w |-> 10],
      [name |-> "tight", dep |-> 100, wd |-> 120, fee |-> None, bal |-> 130, w |-> 10],
      [name |-> "fee",   dep |-> 100, wd |-> 100, fee |-> 200,  bal |-> 300, w |-> 10],
      [name |-> "single", dep |-> 100, wd |-> 100, fee |-> None, bal |-> 300, w |-> 10] }

\* row counts around each threshold of the code: the variant guard (6), the
\* Selector's min_rows, and min_rows + 3, from which a trimmed variant can
\* still hold min_rows rows
Lens == { drop_min, drop_min + 1, min_rows - 1, min_rows } \cup ((min_rows + drop_n)..MaxRows)

Params ==
    [n : Lens, h : 0..MaxHead, t : 0..MaxTail, u : 0..MaxUndated,
     newestFirst : BOOLEAN, sameDate : BOOLEAN, mostlyDeposits : BOOLEAN,
     layout : Layouts]

IsDeposit(p, c) == IF p.mostlyDeposits THEN c % 4 # 0 ELSE c % 2 = 1

Delta(p, c) == IF IsDeposit(p, c) THEN 5 ELSE -3

RECURSIVE BalanceAt(_, _)
BalanceAt(p, c) == IF c = 0 THEN 100 ELSE BalanceAt(p, c - 1) + Delta(p, c)

\* the i-th row of the file
InputRow(p, i) ==
    LET c == IF p.newestFirst THEN p.n + 1 - i ELSE i
        bad == (2 <= i /\ i <= 1 + p.h) \/ (i > p.n - p.t)
        undated == 5 <= i /\ i < 5 + p.u
        d == IF undated THEN 0 ELSE IF p.sameDate THEN 1 ELSE c
        shown == Abs(Delta(p, c)) + (IF bad THEN 2 ELSE 0)
        L == p.layout
    IN  << Tok(DateText(d), 10, 40), Tok(WordText, 60, 30),
           Tok(AmtText(shown, TRUE), IF IsDeposit(p, c) THEN L.dep ELSE L.wd, L.w) >>
        \o (IF L.fee = None THEN << >> ELSE << Tok(AmtText(0, TRUE), L.fee, L.w) >>)
        \o << Tok(AmtText(BalanceAt(p, c), TRUE), L.bal, L.w) >>

InputRows(p) == [i \in 1..p.n |-> InputRow(p, i)]

Inputs == { InputRows(p) : p \in Params }

PipelineInputs == { InputRows(p) : p \in { q \in Params : ~ q.mostlyDeposits } }

RetryInputs ==
    { InputRows(p) : p \in { q \in Params : ~ q.mostlyDeposits /\ q.layout.name \in { "dual", "single" } } }

\* statements for the extractor: as above, with optionally one row whose
\* narration holds a summary keyword (summaryAt, 0 for none) and optionally
\* every amount printed with its (Cr) / (Dr) marker
ExtractParams ==
    [n : { min_rows, MaxRows }, h : 0..1, t : { 0 }, u : 0..MaxUndated,
     newestFirst : BOOLEAN, sameDate : BOOLEAN, mostlyDeposits : { FALSE },
     layout : { L \in Layouts : L.name \in { "dual", "single" } },
     summaryAt : { 0, 3 }, marked : BOOLEAN]

ExtractInputRow(p, i) ==
    LET r == InputRow(p, i)
        c == IF p.newestFirst THEN p.n + 1 - i ELSE i
    IN  [j \in 1..Len(r) |->
            IF j = 2 /\ i = p.summaryAt THEN [r[j] EXCEPT !.text = SummaryText]
            ELSE IF j = 3 /\ p.marked
                 THEN [r[j] EXCEPT !.text =
                          MarkedText(r[j].text.v, IF IsDeposit(p, c) THEN "cr" ELSE "dr")]
                 ELSE r[j]]

ExtractInputRows(p) == [i \in 1..p.n |-> ExtractInputRow(p, i)]

\* statements with a deposit column, a withdrawal column and a balance
\* column, one amount per row, balances the running sum in date order: the
\* deposit column left or right of the withdrawal column, numbers left-aligned
\* (equal x0 in a column) or right-aligned (equal x1), printed glyph layout
\* units wide per character, amounts of one digit or of one and two digits
RecoveryParams ==
    { p \in [n : { 12, MaxRows }, newestFirst : BOOLEAN, sameDate : BOOLEAN,
             depLeft : BOOLEAN, rightAligned : BOOLEAN, glyph : { 2, 5 },
             mixedDigits : BOOLEAN] :
        ~ (p.newestFirst /\ p.sameDate) }

RecoveryIsDeposit(c) == c % 2 = 1

RecoveryAmount(p, c) ==
    IF RecoveryIsDeposit(c)
    THEN (IF p.mixedDigits /\ c % 3 = 0 THEN 15 ELSE 5)
    ELSE (IF p.mixedDigits /\ c % 3 = 1 THEN 13 ELSE 3)

RECURSIVE RecoveryBalance(_, _)
RecoveryBalance(p, c) ==
    IF c = 0 THEN 100
    ELSE RecoveryBalance(p, c - 1)
         + (IF RecoveryIsDeposit(c) THEN RecoveryAmount(p, c) ELSE - RecoveryAmount(p, c))

\* printed width of the amount v: its digits, the point and two decimals
TextWidth(p, v) == p.glyph * ((IF v < 10 THEN 1 ELSE IF v < 100 THEN 2 ELSE 3) + 3)

\* the three columns: left edge when left-aligned, right edge when right-aligned
RecoveryColumn(p, name) ==
    LET slot == IF name = "balance" THEN 3
                ELSE IF (name = "deposit") = p.depLeft THEN 1 ELSE 2
    IN  100 * slot + (IF p.rightAligned THEN 50 ELSE 0)

AmountTok(p, v, name) ==
    LET w == TextWidth(p, v)
        edge == RecoveryColumn(p, name)
    IN  Tok(AmtText(v, TRUE), IF p.rightAligned THEN edge - w ELSE edge, w)

RecoveryRow(p, i) ==
    LET c == IF p.newestFirst THEN p.n + 1 - i ELSE i
    IN  << Tok(DateText(IF p.sameDate THEN 1 ELSE c), 10, 40), Tok(WordText, 60, 30),
           AmountTok(p, RecoveryAmount(p, c),
                     IF RecoveryIsDeposit(c) THEN "deposit" ELSE "withdrawal"),
           AmountTok(p, RecoveryBalance(p, c), "balance") >>

RecoveryRows(p) == [i \in 1..p.n |-> RecoveryRow(p, i)]

\* documents of 2..MaxLines printed lines: each line is a date with
\* narration, a date with one amount, a full transaction line, two amounts,
\* narration with one amount, or narration only; successive lines are 8, 16
\* or 17 units apart; the second word of every line sits skew units lower;
\* the lines after line pageBreak (if not 0) are on a second page
MaxLines == 4

LineKinds == { "date", "date1", "full", "amt2", "amt1", "text" }

AssembleParams ==
    UNION { [kinds : [1..k -> LineKinds], gaps : [1..(k - 1) -> { Y_TOL, MERGE_GAP, MERGE_GAP + 1 }],
             skew : { 0, 4 }, pageBreak : { 0, 2 }] : k \in 2..MaxLines }

RECURSIVE LineTop(_, _)
LineTop(p, i) == IF i = 1 THEN 20 ELSE LineTop(p, i - 1) + p.gaps[i - 1]

LineTexts(p, i) ==
    LET kind == p.kinds[i]
    IN  IF kind = "date" THEN << DateText(i), WordText >>
        ELSE IF kind = "date1" THEN << DateText(i), AmtText(5, TRUE) >>
        ELSE IF kind = "full" THEN << DateText(i), AmtText(5, TRUE), AmtText(7, TRUE) >>
        ELSE IF kind = "amt2" THEN << AmtText(5, TRUE), AmtText(7, TRUE) >>
        ELSE IF kind = "amt1" THEN << WordText, AmtText(5, TRUE) >>
        ELSE << WordText >>

LineWords(p, i) ==
    LET texts == LineTexts(p, i)
    IN  [j \in 1..Len(texts) |->
            Word(texts[j], LineTop(p, i) + (IF j = 2 THEN p.skew ELSE 0),
                 IF p.pageBreak > 0 /\ i > p.pageBreak THEN 2 ELSE 1)]

RECURSIVE DocumentWords(_, _)
DocumentWords(p, i) ==
    IF i > Len(p.kinds) THEN << >> ELSE LineWords(p, i) \o DocumentWords(p, i + 1)

\* column lists handed to the generators: ascending positions
ColPositions == { 100, 105, 120, 125, 140, 200 }
MaxCols == 4
ColLists == { SortedSeq(S) : S \in { T \in SUBSET ColPositions : Cardinality(T) <= MaxCols } }

Replies ==
    { [kind |-> k, idx |-> 0] : k \in ReplyKinds \ { "int", "bool" } }
    \cup { [kind |-> "int", idx |-> i] : i \in -1..4 }
    \cup { [kind |-> "bool", idx |-> i] : i \in 0..1 }

RetryThresholds == { 0, retry_threshold, ConfOne }

\* ------------------------------------------------------------------
\* State
\* ------------------------------------------------------------------
VARIABLES
    entry,          \* the code being run: "run_pipeline", "parse_statement",
                    \* "retry_with_variants", "choose_best_hypothesis", "generators"
    pc,             \* position in it
    rows,           \* the candidate rows (output of the Row Assembler)
    LLM_ENABLED,    \* config.llm.LLM_ENABLED
    retry_thr,      \* the retry_threshold argument of retry_with_variants
    sel,            \* the last call of choose_best_hypothesis: result and work done
    vi,             \* retry_with_variants: index of the next variant of the loop
    calls,          \* retry_with_variants: names of the variants evaluated so far
    candidates,     \* retry_with_variants: the candidates list
    final,          \* the dict `final` of the call sites / the result of retry_with_variants
    arbArg,         \* the list handed to llm_arbitrate
    reply,          \* what the oracle did
    arb,            \* what llm_arbitrate returned
    used,           \* the schema and confidence handed to extract_transactions
    outcome,        \* "running", "extracted", "failed" (Schema detection failed),
                    \* "raised" (RuntimeError)
    cols,           \* generators: the column list
    hyps,           \* generators: the hypotheses emitted
    arg_schema,     \* the schema argument of validate_hypothesis / extract_transactions
    tally,          \* what validate_hypothesis returned
    transactions,   \* what extract_transactions returned
    words,          \* detect_candidate_rows: the positioned words of the document
    line_groups,    \* detect_candidate_rows: the line groups of each page
    detected,       \* detect_candidate_rows: the candidates list
    db,             \* parse_statement: what the database session has been asked to do
    shape,          \* the parameters of the statement the rows were laid out from
    loop,           \* the for loop of validate_hypothesis / extract_transactions, run step by step
    ret             \* what a function called on its own returned

vars == << entry, pc, rows, LLM_ENABLED, retry_thr, sel, vi, calls,
           candidates, final, arbArg, reply, arb, used, outcome, cols, hyps,
           arg_schema, tally, transactions, words, line_groups, detected, db, shape, loop, ret >>

\* the variables of the validator, the extractor, the row assembler and the
\* database session
ext == << arg_schema, tally, transactions, words, line_groups, detected, db, shape, loop, ret >>

NoSel == [schema |-> NoSchema, confidence |-> 0, hyps |-> << >>, evaluated |-> << >>]
NoReply == [kind |-> "none", idx |-> 0]
NoUsed == [schema |-> NoSchema, confidence |-> 0]
\* validate_hypothesis not called yet
NoRes == [reconciled |-> None, errors |-> None]
\* extract_transactions has not returned yet
NoTxns == [returned |-> FALSE, list |-> << >>]
\* a session on which nothing has been done: no object added, no flush, no
\* bulk save (saved = None), no commit
NoDb == [added |-> FALSE, flushed |-> FALSE, saved |-> None, committed |-> FALSE]
\* the rows were not laid out from parameters kept in the state
NoShape == [n |-> None]
\* no loop is being run step by step
NoLoop == [i |-> None]
\* the function has not returned yet
NoRet == [returned |-> FALSE]

InitCommon ==
    /\ sel = NoSel
    /\ vi = 1
    /\ calls = << >>
    /\ candidates = << >>
    /\ final = [decision |-> "none"]
    /\ arbArg = << >>
    /\ reply = NoReply
    /\ arb = NoCandidate
    /\ used = NoUsed
    /\ outcome = "running"
    /\ hyps = << >>
    /\ tally = NoRes
    /\ transactions = NoTxns
    /\ detected = << >>
    /\ db = NoDb
    /\ loop = NoLoop
    /\ ret = NoRet

\* not final.get("schema")
HasSchema(f) == "schema" \in DOMAIN f /\ f.schema # NoSchema

\* variant of RowsAfterCall: the argument list itself is sorted by date
RowsAfterCall_SortedInPlace(rs) == SortedDated(rs)

\* the list handed to choose_best_hypothesis, after the call: lines 21-26
\* build the new list `dated`, sort that and read rows only
RowsAfterCall(rs) == rs

\* the variant is the caller's list itself (line 16); reversed(rows), rows[3:]
\* and rows[:-3] are new lists (lines 19, 23, 27)
Aliased(v) == v.name = "original"

\* ------------------------------------------------------------------
\* The call sites: run_pipeline.py lines 67-97, pipeline/core.py lines 94-119
\* ------------------------------------------------------------------
\* schema, confidence = choose_best_hypothesis(rows) and the test on 0.9
Select ==
    /\ pc = "select"
    /\ \E r \in { choose_best_hypothesis(rows) } :
           /\ sel' = r
           /\ IF r.confidence >= pipeline_threshold
              THEN /\ final' = IF entry = "run_pipeline"
                               THEN [schema |-> r.schema, confidence |-> r.confidence,
                                     decision |-> "accepted"]
                               ELSE [schema |-> r.schema, confidence |-> r.confidence]
                   /\ pc' = "check"
              ELSE /\ final' = final
                   /\ pc' = "retry"
    /\ rows' = RowsAfterCall(rows)
    /\ UNCHANGED << entry, LLM_ENABLED, retry_thr, vi, calls, candidates,
                    arbArg, reply, arb, used, outcome, cols, hyps >>
    /\ UNCHANGED ext

\* retry_with_variants lines 13-29
RetryBegin ==
    /\ pc = "retry"
    /\ candidates' = << >>
    /\ vi' = 1
    /\ pc' = "retry_loop"
    /\ UNCHANGED << entry, rows, LLM_ENABLED, retry_thr, sel, calls, final,
                    arbArg, reply, arb, used, outcome, cols, hyps >>
    /\ UNCHANGED ext

\* variant of RetryEvalStep: no early return on reaching accept_threshold
RetryEvalStep_NoEarlyAccept(v, r) ==
    /\ sel' = r
    /\ calls' = Append(calls, v.name)
    /\ vi' = vi + 1
    /\ candidates' = IF r.schema = NoSchema THEN candidates
                     ELSE Append(candidates, Candidate(r.schema, r.confidence, v.name))
    /\ UNCHANGED << final, pc >>

\* retry_with_variants lines 31-50: one iteration of the loop
RetryEvalStep(v, r) ==
    /\ sel' = r
    /\ calls' = Append(calls, v.name)
    /\ vi' = vi + 1
    /\ IF r.schema = NoSchema
       THEN UNCHANGED << candidates, final, pc >>
       ELSE /\ candidates' = Append(candidates, Candidate(r.schema, r.confidence, v.name))
            /\ IF r.confidence >= accept_threshold
               THEN /\ final' = Accepted(r.schema, r.confidence, v.name)
                    /\ pc' = "retried"
               ELSE UNCHANGED << final, pc >>

RetryEval ==
    /\ pc = "retry_loop"
    /\ vi <= Len(Variants(rows))
    /\ \E v \in { Variants(rows)[vi] } :
         \E r \in { choose_best_hypothesis(v.rows) } :
           /\ RetryEvalStep(v, r)
           /\ rows' = IF Aliased(v) THEN RowsAfterCall(rows) ELSE rows
    /\ UNCHANGED << entry, LLM_ENABLED, retry_thr,
                    arbArg, reply, arb, used, outcome, cols, hyps >>
    /\ UNCHANGED ext

\* retry_with_variants lines 55-69
RetryDecide ==
    /\ pc = "retry_loop"
    /\ vi > Len(Variants(rows))
    /\ final' = Decide(candidates, retry_thr)
    /\ pc' = "retried"
    /\ UNCHANGED << entry, rows, LLM_ENABLED, retry_thr, sel, vi, calls,
                    candidates, arbArg, reply, arb, used, outcome, cols, hyps >>
    /\ UNCHANGED ext

\* the list each call site hands to llm_arbitrate
ArbitrationArgument(e, f) ==
    IF e = "run_pipeline" THEN f.candidates ELSE << f >>

\* run_pipeline.py 77-80, core.py 98-99
Arbitrate ==
    /\ pc = "retried"
    /\ entry \in { "run_pipeline", "parse_statement" }
    /\ final.decision = "needs_arbitration"
    /\ LET arg == ArbitrationArgument(entry, final)
       IN  \E rep \in IF Requests(arg, LLM_ENABLED) THEN Replies ELSE { NoReply } :
             LET a == llm_arbitrate(arg, LLM_ENABLED, rep)
             IN  /\ arbArg' = arg
                 /\ reply' = rep
                 /\ arb' = a
                 /\ final' = IF a # NoCandidate THEN a ELSE final
    /\ pc' = "check"
    /\ UNCHANGED << entry, rows, LLM_ENABLED, retry_thr, sel, vi, calls,
                    candidates, used, outcome, cols, hyps >>
    /\ UNCHANGED ext

NoArbitration ==
    /\ pc = "retried"
    /\ entry \in { "run_pipeline", "parse_statement" }
    /\ final.decision # "needs_arbitration"
    /\ pc' = "check"
    /\ UNCHANGED << entry, rows, LLM_ENABLED, retry_thr, sel, vi, calls,
                    candidates, final, arbArg, reply, arb, used, outcome, cols, hyps >>
    /\ UNCHANGED ext

\* run_pipeline.py 89-90 (raise RuntimeError), core.py 103-104 (return error)
SchemaMissing ==
    /\ pc = "check"
    /\ ~ HasSchema(final)
    /\ outcome' = IF entry = "run_pipeline" THEN "raised" ELSE "failed"
    /\ pc' = "done"
    /\ UNCHANGED << entry, rows, LLM_ENABLED, retry_thr, sel, vi, calls,
                    candidates, final, arbArg, reply, arb, used, cols, hyps >>
    /\ UNCHANGED ext

\* run_pipeline.py 92-97, core.py 114-119: extract_transactions(rows, schema, confidence)
Extract ==
    /\ pc = "check"
    /\ HasSchema(final)
    /\ used' = [schema |-> final.schema, confidence |-> final.confidence]
    /\ outcome' = "extracted"
    /\ pc' = "done"
    /\ UNCHANGED << entry, rows, LLM_ENABLED, retry_thr, sel, vi, calls,
                    candidates, final, arbArg, reply, arb, cols, hyps >>
    /\ UNCHANGED ext

Init ==
    /\ entry \in { "run_pipeline", "parse_statement" }
    /\ pc = "select"
    /\ rows \in PipelineInputs
    /\ LLM_ENABLED \in BOOLEAN
    /\ retry_thr = retry_threshold
    /\ cols = << >>
    /\ arg_schema = NoSchema
    /\ line_groups = << >>
    /\ words = << >>
    /\ shape = NoShape
    /\ InitCommon

Next ==
    \/ Select
    \/ RetryBegin
    \/ RetryEval
    \/ RetryDecide
    \/ Arbitrate
    \/ NoArbitration
    \/ SchemaMissing
    \/ Extract

Spec == Init /\ [][Next]_vars

\* ------------------------------------------------------------------
\* retry_with_variants called on its own
\* ------------------------------------------------------------------
InitRetry ==
    /\ entry = "retry_with_variants"
    /\ pc = "retry"
    /\ rows \in RetryInputs
    /\ LLM_ENABLED = TRUE
    /\ retry_thr \in RetryThresholds
    /\ cols = << >>
    /\ arg_schema = NoSchema
    /\ line_groups = << >>
    /\ words = << >>
    /\ shape = NoShape
    /\ InitCommon

NextRetry ==
    \/ RetryBegin
    \/ RetryEval
    \/ RetryDecide

SpecRetry == InitRetry /\ [][NextRetry]_vars

\* ------------------------------------------------------------------
\* choose_best_hypothesis called on its own
\* ------------------------------------------------------------------
ChooseBest ==
    /\ pc = "call"
    /\ entry = "choose_best_hypothesis"
    /\ sel' = choose_best_hypothesis(rows)
    /\ pc' = "returned"
    /\ rows' = RowsAfterCall(rows)
    /\ UNCHANGED << entry, LLM_ENABLED, retry_thr, vi, calls, candidates,
                    final, arbArg, reply, arb, used, outcome, cols, hyps >>
    /\ UNCHANGED ext

InitSelector ==
    /\ entry = "choose_best_hypothesis"
    /\ pc = "call"
    /\ rows \in Inputs
    /\ LLM_ENABLED = TRUE
    /\ retry_thr = retry_threshold
    /\ cols = << >>
    /\ arg_schema = NoSchema
    /\ line_groups = << >>
    /\ words = << >>
    /\ shape = NoShape
    /\ InitCommon

SpecSelector == InitSelector /\ [][ChooseBest]_vars

\* ------------------------------------------------------------------
\* the hypothesis generators called on a column list
\* ------------------------------------------------------------------
GenerateDual ==
    /\ pc = "call"
    /\ entry = "generators"
    /\ hyps' = generate_dual_hypotheses(cols)
    /\ pc' = "dual"
    /\ UNCHANGED << entry, rows, LLM_ENABLED, retry_thr, sel, vi, calls, candidates,
                    final, arbArg, reply, arb, used, outcome, cols >>
    /\ UNCHANGED ext

GenerateSingle ==
    /\ pc = "call"
    /\ entry = "generators"
    /\ hyps' = generate_single_amount_hypotheses(cols)
    /\ pc' = "single"
    /\ UNCHANGED << entry, rows, LLM_ENABLED, retry_thr, sel, vi, calls, candidates,
                    final, arbArg, reply, arb, used, outcome, cols >>
    /\ UNCHANGED ext

InitGenerators ==
    /\ entry = "generators"
    /\ pc = "call"
    /\ rows = << >>
    /\ LLM_ENABLED = TRUE
    /\ retry_thr = retry_threshold
    /\ cols \in ColLists
    /\ arg_schema = NoSchema
    /\ line_groups = << >>
    /\ words = << >>
    /\ shape = NoShape
    /\ InitCommon

NextGenerators ==
    \/ GenerateDual
    \/ GenerateSingle

SpecGenerators == InitGenerators /\ [][NextGenerators]_vars

\* ------------------------------------------------------------------
\* validate_hypothesis called on its own, on a row list in file order and
\* one of the hypotheses generated from its columns
\* ------------------------------------------------------------------
HypothesesOf(rs) ==
    LET cs == extract_numeric_columns(rs)
        hs == generate_dual_hypotheses(cs) \o generate_single_amount_hypotheses(cs)
    IN  { hs[i] : i \in 1..Len(hs) }

Validate ==
    /\ pc = "call"
    /\ entry = "validate_hypothesis"
    /\ tally' = validate_hypothesis(rows, arg_schema)
    /\ pc' = "validated"
    /\ UNCHANGED << entry, rows, LLM_ENABLED, retry_thr, sel, vi, calls, candidates,
                    final, arbArg, reply, arb, used, outcome, cols, hyps,
                    arg_schema, transactions, words, line_groups, detected, db, shape, loop, ret >>

InitValidate ==
    /\ entry = "validate_hypothesis"
    /\ pc = "call"
    /\ shape \in Params
    /\ rows = InputRows(shape)
    /\ arg_schema \in HypothesesOf(rows)
    /\ LLM_ENABLED = TRUE
    /\ retry_thr = retry_threshold
    /\ cols = << >>
    /\ line_groups = << >>
    /\ words = << >>
    /\ InitCommon

SpecValidate == InitValidate /\ [][Validate]_vars

\* ------------------------------------------------------------------
\* A hypothesis validated on the date-sorted rows, as the Selector does, and
\* extract_transactions then called with it on the row list, as the call
\* sites do
\* ------------------------------------------------------------------
ValidateSorted ==
    /\ pc = "call"
    /\ entry = "extract_transactions"
    /\ tally' = validate_hypothesis(SortedDated(rows), arg_schema)
    /\ pc' = "validated"
    /\ UNCHANGED << entry, rows, LLM_ENABLED, retry_thr, sel, vi, calls, candidates,
                    final, arbArg, reply, arb, used, outcome, cols, hyps,
                    arg_schema, transactions, words, line_groups, detected, db, shape, loop, ret >>

ExtractTransactions ==
    /\ pc = "validated"
    /\ entry = "extract_transactions"
    /\ transactions' = [returned |-> TRUE,
                        list |-> extract_transactions(rows, arg_schema, score_hypothesis(tally))]
    /\ pc' = "extracted"
    /\ UNCHANGED << entry, rows, LLM_ENABLED, retry_thr, sel, vi, calls, candidates,
                    final, arbArg, reply, arb, used, outcome, cols, hyps,
                    arg_schema, tally, words, line_groups, detected, db, shape, loop, ret >>

InitExtract ==
    /\ entry = "extract_transactions"
    /\ pc = "call"
    /\ shape \in ExtractParams
    /\ rows = ExtractInputRows(shape)
    /\ arg_schema \in HypothesesOf(SortedDated(rows))
    /\ LLM_ENABLED = TRUE
    /\ retry_thr = retry_threshold
    /\ cols = << >>
    /\ line_groups = << >>
    /\ words = << >>
    /\ InitCommon

NextExtract ==
    \/ ValidateSorted
    \/ ExtractTransactions

SpecExtract == InitExtract /\ [][NextExtract]_vars

\* ------------------------------------------------------------------
\* choose_best_hypothesis called on a well-formed three-column statement
\* ------------------------------------------------------------------
InitRecovery ==
    /\ entry = "choose_best_hypothesis"
    /\ pc = "call"
    /\ shape \in RecoveryParams
    /\ rows = RecoveryRows(shape)
    /\ LLM_ENABLED = TRUE
    /\ retry_thr = retry_threshold
    /\ cols = << >>
    /\ arg_schema = NoSchema
    /\ line_groups = << >>
    /\ words = << >>
    /\ InitCommon

SpecRecovery == InitRecovery /\ [][ChooseBest]_vars

\* ------------------------------------------------------------------
\* detect_candidate_rows called on the words of a document
\* ------------------------------------------------------------------
Assemble ==
    /\ entry = "detect_candidate_rows"
    /\ pc = "call"
    /\ line_groups' = AllLineGroups(words)
    /\ detected' = detect_candidate_rows(words)
    /\ pc' = "assembled"
    /\ UNCHANGED << entry, rows, LLM_ENABLED, retry_thr, sel, vi, calls,
                    candidates, final, arbArg, reply, arb, used, outcome, cols, hyps,
                    arg_schema, tally, transactions, words, db, shape, loop, ret >>

InitAssemble ==
    /\ entry = "detect_candidate_rows"
    /\ pc = "call"
    /\ shape \in AssembleParams
    /\ words = DocumentWords(shape, 1)
    /\ line_groups = << >>
    /\ rows = << >>
    /\ LLM_ENABLED = TRUE
    /\ retry_thr = retry_threshold
    /\ cols = << >>
    /\ arg_schema = NoSchema
    /\ InitCommon

SpecAssemble == InitAssemble /\ [][Assemble]_vars

\* ------------------------------------------------------------------
\* parse_statement (core.py), the database session included
\* ------------------------------------------------------------------
\* variant of AfterCheck: the Statement is added whatever schema detection gave
AfterCheck_AlwaysAdd(f) == "add_statement"

\* core.py 103-104: where parse_statement goes after schema detection
AfterCheck(f) == IF HasSchema(f) THEN "add_statement" ELSE "return_error"

\* core.py 103-104: return {"status": "error", "message": "Schema detection failed"}
ParseFailed ==
    /\ pc = "check"
    /\ entry = "parse_statement"
    /\ AfterCheck(final) = "return_error"
    /\ outcome' = "failed"
    /\ pc' = "done"
    /\ UNCHANGED << entry, rows, LLM_ENABLED, retry_thr, sel, vi, calls,
                    candidates, final, arbArg, reply, arb, used, cols, hyps >>
    /\ UNCHANGED ext

\* core.py 107-112: db.add(statement); db.flush()
AddStatement ==
    /\ pc = "check"
    /\ entry = "parse_statement"
    /\ AfterCheck(final) = "add_statement"
    /\ db' = [db EXCEPT !.added = TRUE, !.flushed = TRUE]
    /\ pc' = "statement_added"
    /\ UNCHANGED << entry, rows, LLM_ENABLED, retry_thr, sel, vi, calls,
                    candidates, final, arbArg, reply, arb, used, outcome, cols, hyps,
                    arg_schema, tally, transactions, words, line_groups, detected, shape, loop, ret >>

\* core.py 114-119: transactions = extract_transactions(rows, schema, confidence)
ExtractParsed ==
    /\ pc = "statement_added"
    /\ used' = [schema |-> final.schema, confidence |-> final.confidence]
    /\ transactions' = [returned |-> TRUE,
                        list |-> extract_transactions(rows, final.schema, final.confidence)]
    /\ pc' = "transactions"
    /\ UNCHANGED << entry, rows, LLM_ENABLED, retry_thr, sel, vi, calls,
                    candidates, final, arbArg, reply, arb, outcome, cols, hyps,
                    arg_schema, tally, words, line_groups, detected, db, shape, loop, ret >>

\* core.py 122-135: db.bulk_save_objects, one Transaction per extracted txn
BulkSave ==
    /\ pc = "transactions"
    /\ db' = [db EXCEPT !.saved = Len(transactions.list)]
    /\ pc' = "saved"
    /\ UNCHANGED << entry, rows, LLM_ENABLED, retry_thr, sel, vi, calls,
                    candidates, final, arbArg, reply, arb, used, outcome, cols, hyps,
                    arg_schema, tally, transactions, words, line_groups, detected, shape, loop, ret >>

\* core.py 137-144: db.commit(); return success
Commit ==
    /\ pc = "saved"
    /\ db' = [db EXCEPT !.committed = TRUE]
    /\ outcome' = "extracted"
    /\ pc' = "done"
    /\ UNCHANGED << entry, rows, LLM_ENABLED, retry_thr, sel, vi, calls,
                    candidates, final, arbArg, reply, arb, used, cols, hyps,
                    arg_schema, tally, transactions, words, line_groups, detected, shape, loop, ret >>

ParseParams == { q \in Params : ~ q.mostlyDeposits /\ q.t = 0 /\ q.u = 0 }

ParseInputs == { InputRows(p) : p \in ParseParams }

InitParse ==
    /\ entry = "parse_statement"
    /\ pc = "select"
    /\ shape \in ParseParams
    /\ rows = InputRows(shape)
    /\ LLM_ENABLED \in BOOLEAN
    /\ retry_thr = retry_threshold
    /\ cols = << >>
    /\ arg_schema = NoSchema
    /\ line_groups = << >>
    /\ words = << >>
    /\ InitCommon

NextParse ==
    \/ Select
    \/ RetryBegin
    \/ RetryEval
    \/ RetryDecide
    \/ Arbitrate
    \/ NoArbitration
    \/ ParseFailed
    \/ AddStatement
    \/ ExtractParsed
    \/ BulkSave
    \/ Commit

SpecParse == InitParse /\ [][NextParse]_vars

\* ------------------------------------------------------------------
\* the document pipeline with the arbitration request in flight, under the
\* assumption that the running code keeps taking steps
\* ------------------------------------------------------------------
\* requests.post(..., timeout=30), seconds
request_timeout == 30

\* variant of PostReturns: the request is posted without timeout
PostReturns_NoTimeout(rep, timeout) == rep.kind # "timeout"

\* requests.post comes back: with the response, with the error, or with
\* the timeout exception once `timeout` seconds passed without an answer
PostReturns(rep, timeout) == rep.kind # "timeout" \/ timeout # None

\* llm_arbitrate lines 62-99: the hard guards, then the request is posted
ArbitrateCall ==
    /\ pc = "retried"
    /\ entry \in { "run_pipeline", "parse_statement" }
    /\ final.decision = "needs_arbitration"
    /\ LET arg == ArbitrationArgument(entry, final)
       IN  \E rep \in IF Requests(arg, LLM_ENABLED) THEN Replies ELSE { NoReply } :
             /\ arbArg' = arg
             /\ reply' = rep
    /\ pc' = "awaiting"
    /\ UNCHANGED << entry, rows, LLM_ENABLED, retry_thr, sel, vi, calls,
                    candidates, final, arb, used, outcome, cols, hyps >>
    /\ UNCHANGED ext

\* llm_arbitrate lines 99-126 and the call site's use of the result
ArbitrateReturn ==
    /\ pc = "awaiting"
    /\ PostReturns(reply, request_timeout)
    /\ LET a == llm_arbitrate(arbArg, LLM_ENABLED, reply)
       IN  /\ arb' = a
           /\ final' = IF a # NoCandidate THEN a ELSE final
    /\ pc' = "check"
    /\ UNCHANGED << entry, rows, LLM_ENABLED, retry_thr, sel, vi, calls,
                    candidates, arbArg, reply, used, outcome, cols, hyps >>
    /\ UNCHANGED ext

InitLive ==
    /\ entry \in { "run_pipeline", "parse_statement" }
    /\ pc = "select"
    /\ rows \in ParseInputs
    /\ LLM_ENABLED \in BOOLEAN
    /\ retry_thr = retry_threshold
    /\ cols = << >>
    /\ arg_schema = NoSchema
    /\ line_groups = << >>
    /\ words = << >>
    /\ shape = NoShape
    /\ InitCommon

NextLive ==
    \/ Select
    \/ RetryBegin
    \/ RetryEval
    \/ RetryDecide
    \/ ArbitrateCall
    \/ ArbitrateReturn
    \/ NoArbitration
    \/ SchemaMissing
    \/ Extract

\* the positions of the pipeline
Positions == { "select", "retry", "retry_loop", "retried", "awaiting", "check", "done" }

\* a step of the pipeline is possible: the run is not over and, if a request
\* is in flight, requests.post can come back
CanStep == pc # "done" /\ (pc = "awaiting" => PostReturns(reply, request_timeout))

\* the running code advances: every step of NextLive moves pc or, inside the
\* loop over the variants, vi
Advance ==
    /\ CanStep
    /\ pc' \in Positions
    /\ vi' \in 1..5
    /\ << pc', vi' >> # << pc, vi >>

\* the interpreter keeps running the code: as long as a step is possible,
\* one is eventually taken
SpecLive == InitLive /\ [][NextLive]_vars /\ WF_<< pc, vi >>(Advance)

\* CanStep is the enabling condition of NextLive: with this next-state
\* relation no reachable state lacks a successor
NextLiveOrHalted == NextLive \/ (~ CanStep /\ UNCHANGED vars)

SpecLiveTotal == InitLive /\ [][NextLiveOrHalted]_vars


\* ==================================================================
\* Properties
\* ==================================================================
FixedOrder == << "original", "reversed", "drop_first_3", "drop_last_3" >>

\* number of rows with a parseable date
CountDated(rs) == Cardinality({ i \in 1..Len(rs) : extract_date(rs[i]) # None })

\* the variants of the row list, each with the Selector's answer on it
VariantResults ==
    [i \in 1..Len(Variants(rows)) |->
        [name |-> Variants(rows)[i].name,
         res  |-> choose_best_hypothesis(Variants(rows)[i].rows)]]

Reaches(vr) == vr.res.confidence >= (95 * ConfOne) \div 100

\* the first candidate of maximal confidence
RECURSIVE HighestFrom(_, _, _)
HighestFrom(cands, i, best) ==
    IF i > Len(cands) THEN best
    ELSE HighestFrom(cands, i + 1, IF cands[i].confidence > best.confidence THEN cands[i] ELSE best)

HighestConfidence(cands) == HighestFrom(cands, 2, cands[1])

\* the oracle's answer names a candidate: an integer index within the list
ValidIndex(rep, cands) == rep.kind = "int" /\ 0 <= rep.idx /\ rep.idx < Len(cands)

\* C1: when arbitration was asked and yielded None, the run ends with the
\* transactions extracted under the schema and confidence of the candidate of
\* highest confidence; it neither raises nor reports schema-detection failure.
C1_FallbackToHighestConfidence ==
    (pc = "done" /\ arbArg # << >> /\ arb = NoCandidate)
        => /\ outcome = "extracted"
           /\ used = [schema |-> HighestConfidence(candidates).schema,
                      confidence |-> HighestConfidence(candidates).confidence]

\* C2: the Selector is run on the variants in the fixed order, and the call
\* returns "accepted" with the schema, confidence and label of the first
\* variant whose confidence reaches 0.95, no later variant being evaluated.
C2_FirstReachingVariantAccepted ==
    /\ calls = SubSeq(FixedOrder, 1, Len(calls))
    /\ pc = "retried" =>
         LET vrs == VariantResults
         IN  \A i \in 1..Len(vrs) :
                (Reaches(vrs[i]) /\ \A j \in 1..(i - 1) : ~ Reaches(vrs[j]))
                    => /\ final = [decision |-> "accepted",
                                   schema |-> vrs[i].res.schema,
                                   confidence |-> vrs[i].res.confidence,
                                   variant |-> vrs[i].name]
                       /\ final.variant = FixedOrder[i]
                       /\ Len(calls) = i

C2_Witness ==
    /\ pc = "retried"
    /\ final.decision = "accepted"
    /\ final.variant = "drop_first_3"
    /\ Len(candidates) = 3

\* the candidates the variants contribute: those with a schema, in variant order
RECURSIVE ExpectedCandidates(_, _)
ExpectedCandidates(vrs, i) ==
    IF i > Len(vrs) THEN << >>
    ELSE (IF vrs[i].res.schema # NoSchema
          THEN << [schema |-> vrs[i].res.schema, confidence |-> vrs[i].res.confidence,
                   variant |-> vrs[i].name] >>
          ELSE << >>)
         \o ExpectedCandidates(vrs, i + 1)

\* C3: when no variant reaches 0.95 the outcome is needs_arbitration with
\* exactly the variants that produced a schema (in order, each below 0.95) if
\* there is one, and rejected otherwise, whatever retry_threshold is.
C3_ArbitrationOrRejected ==
    pc = "retried" =>
        LET vrs == VariantResults
            exp == ExpectedCandidates(vrs, 1)
        IN  (\A i \in 1..Len(vrs) : ~ Reaches(vrs[i]))
                => /\ \A k \in 1..Len(exp) : exp[k].confidence < (95 * ConfOne) \div 100
                   /\ final = IF exp # << >>
                              THEN [decision |-> "needs_arbitration", candidates |-> exp]
                              ELSE [decision |-> "rejected"]

C3_Witness ==
    /\ pc = "retried"
    /\ final.decision = "needs_arbitration"
    /\ Len(final.candidates) = 4
    /\ final.candidates[1].confidence >= retry_thr
    /\ retry_thr = (70 * ConfOne) \div 100

\* the arbitration call failed: oracle disabled, fewer than 2 candidates,
\* network error or timeout, HTTP error status, unparseable response, or a
\* winner_index that is missing, not an integer, negative or too large
ArbitrationFailed ==
    \/ ~ LLM_ENABLED
    \/ Len(arbArg) < 2
    \/ reply.kind \in { "timeout", "http_error", "not_json", "no_braces", "bad_json",
                        "missing", "float", "string", "bool" }
    \/ (reply.kind = "int" /\ (reply.idx < 0 \/ reply.idx >= Len(arbArg)))

\* C4: llm_arbitrate returns None in every failure mode.
C4_FailureGivesNone ==
    (arbArg # << >> /\ ArbitrationFailed) => arb = NoCandidate

\* C5: a non-None result of llm_arbitrate is one of the candidates produced by
\* the retry controller, unchanged, and it is its schema and confidence that
\* the extractor receives.
C5_ArbitrationOnlySelects ==
    arb # NoCandidate
        => /\ \E i \in 1..Len(candidates) : arb = candidates[i]
           /\ final = arb
           /\ pc = "done" => used = [schema |-> arb.schema, confidence |-> arb.confidence]

C5_Witness ==
    /\ pc = "done"
    /\ outcome = "extracted"
    /\ reply.kind = "int"
    /\ reply.idx = 2
    /\ arb = candidates[3]
    /\ arb.confidence > candidates[1].confidence

\* C6: after needs_arbitration with two or more candidates the candidate list
\* is what the arbitration interface receives, and with a valid index from an
\* enabled oracle the extractor receives the chosen candidate's schema and
\* confidence.
C6_CandidatesHandedToArbitration ==
    (pc \in { "check", "done" } /\ calls # << >> /\ Len(candidates) >= 2
        /\ \A k \in 1..Len(candidates) : candidates[k].confidence < (95 * ConfOne) \div 100)
        => /\ arbArg = candidates
           /\ (pc = "done" /\ LLM_ENABLED /\ ValidIndex(reply, candidates))
                => /\ outcome = "extracted"
                   /\ used = [schema |-> candidates[reply.idx + 1].schema,
                              confidence |-> candidates[reply.idx + 1].confidence]

\* C7: with fewer than min_rows dated rows the Selector returns (no schema,
\* 0.0) and generates and validates no hypothesis.
C7_TooFewDatedRows ==
    (pc = "returned" /\ CountDated(rows) < 10)
        => /\ sel.schema = NoSchema
           /\ sel.confidence = 0
           /\ sel.hyps = << >>
           /\ sel.evaluated = << >>

C7_Witness ==
    /\ pc = "returned"
    /\ Len(rows) >= 10
    /\ CountDated(rows) = 9
    /\ sel.schema = NoSchema

\* ranking score of a kept hypothesis, in units of 1/(10 * ConfOne)
RankOf(e) == IF e.schema.type = "dual" THEN 13 * e.confidence ELSE 10 * e.confidence

\* C8: with a surviving hypothesis, the returned schema is one of maximal
\* ranking score (confidence, x 1.3 for Dual) and the returned confidence is
\* that hypothesis's unscaled confidence, within [0, 1], never the scaled score.
C8_MaxRankingUnscaledConfidence ==
    (pc = "returned" /\ sel.evaluated # << >>)
        => /\ \E k \in 1..Len(sel.evaluated) :
                /\ sel.schema = sel.evaluated[k].schema
                /\ sel.confidence = sel.evaluated[k].confidence
                /\ \A j \in 1..Len(sel.evaluated) : RankOf(sel.evaluated[j]) <= RankOf(sel.evaluated[k])
           /\ 0 <= sel.confidence /\ sel.confidence <= ConfOne
           /\ sel.confidence =
                score_hypothesis(validate_hypothesis(SortedDated(rows), sel.schema))

C8_Witness ==
    /\ pc = "returned"
    /\ sel.schema.type = "dual"
    /\ sel.confidence < ConfOne
    /\ \E j \in 1..Len(sel.evaluated) :
          /\ sel.evaluated[j].schema.type = "single"
          /\ sel.evaluated[j].confidence > sel.confidence

\* C9: a returned schema has reconciled + errors >= min_rows on the sorted
\* dated rows; if no generated hypothesis reaches that, the result is
\* (no schema, 0.0).
TotalOf(h) ==
    LET res == validate_hypothesis(SortedDated(rows), h)
    IN  res.reconciled + res.errors

C9_ReturnedSchemaCoversMinRows ==
    pc = "returned"
        => /\ sel.schema # NoSchema => TotalOf(sel.schema) >= 10
           /\ (\A k \in 1..Len(sel.hyps) : TotalOf(sel.hyps[k]) < 10)
                => (sel.schema = NoSchema /\ sel.confidence = 0)

C9_Witness ==
    /\ pc = "returned"
    /\ sel.schema # NoSchema
    /\ \E k \in 1..Len(sel.hyps) :
          /\ TotalOf(sel.hyps[k]) < 10
          /\ TotalOf(sel.hyps[k]) > 0

\* the x-positions a schema refers to
PositionsOf(h) ==
    IF h.type = "dual" THEN << h.deposit_x, h.withdrawal_x, h.balance_x >>
    ELSE << h.amount_x, h.balance_x >>

\* C10: in every emitted hypothesis any two x-positions of the schema differ
\* by at least 15 layout units.
C10_SchemaPositionsSpaced ==
    \A k \in 1..Len(hyps) :
        LET xs == PositionsOf(hyps[k])
        IN  \A a, b \in 1..Len(xs) : a # b => Abs(xs[a] - xs[b]) >= 15

\* rows of rs with an extractable balance under h, as indices
BalanceRows(rs, h) ==
    { i \in 1..Len(rs) : extract_amount(rs[i], Get(h, "balance_x")) # None }

\* C11: validate_hypothesis counts at most the rows with an extractable
\* balance at balance_x, and the first such row counts as reconciled, never as
\* an error, whatever its amount.
C11_TallyWithinBalanceRows ==
    pc = "validated" =>
        LET B == BalanceRows(rows, arg_schema)
        IN  /\ tally.reconciled >= 0 /\ tally.errors >= 0
            /\ tally.reconciled + tally.errors <= Cardinality(B)
            /\ B # {} =>
                 LET first == CHOOSE i \in B : \A j \in B : i <= j
                 IN  /\ tally.reconciled >= 1
                     /\ validate_hypothesis(SubSeq(rows, 1, first), arg_schema)
                            = [reconciled |-> 1, errors |-> 0]

C11_Witness ==
    /\ pc = "validated"
    /\ tally.reconciled + tally.errors < Cardinality(BalanceRows(rows, arg_schema))
    /\ Cardinality(BalanceRows(rows, arg_schema)) < Len(rows)
    /\ BalanceRows(rows, arg_schema) # {}
    /\ 1 \notin BalanceRows(rows, arg_schema)

\* the statement of shape p with none of its amounts replaced
CleanRows(p) == InputRows([p EXCEPT !.h = 0, !.t = 0])

\* the rows after the first whose amount is printed wrong: h of them from
\* row 2 on and the last t
WrongRows(p) == { i \in 2..p.n : i <= 1 + p.h \/ i > p.n - p.t }

\* every row of the unaltered statement reconciles under schema h
Consistent(p, h) ==
    validate_hypothesis(CleanRows(p), h) = [reconciled |-> p.n, errors |-> 0]

\* C15: on a row list consistent with its running balances under the schema,
\* k >= 1 rows after the first whose amount misses the balance delta by more
\* than epsilon give exactly k errors and N - k reconciled rows, and a ratio
\* reconciled / (reconciled + errors) strictly below the one with k = 0.
C15_WrongAmountsTalliedAsErrors ==
    (pc = "validated" /\ Consistent(shape, arg_schema) /\ WrongRows(shape) # { }) =>
        LET k  == Cardinality(WrongRows(shape))
            c0 == validate_hypothesis(CleanRows(shape), arg_schema)
        IN  /\ tally.errors = k
            /\ tally.reconciled = shape.n - k
            /\ tally.reconciled * (c0.reconciled + c0.errors)
                 < c0.reconciled * (tally.reconciled + tally.errors)

C15_Witness ==
    /\ pc = "validated"
    /\ Consistent(shape, arg_schema)
    /\ shape.h + shape.t = 3
    /\ arg_schema.type = "dual"
    /\ tally.errors = 3

\* C20: the variants are the row list itself, the row list in reverse order
\* and, only for more than 6 rows, the row list without its first 3 rows and
\* without its last 3 rows: 2 variants up to 6 rows and 4 beyond, each made of
\* rows of the original list; these are the lists the Selector is run on.
C20_VariantsAsSpecified ==
    LET vs == Variants(rows)
        n  == Len(rows)
    IN  /\ Len(vs) = IF n <= 6 THEN 2 ELSE 4
        /\ vs[1].name = "original" /\ vs[1].rows = rows
        /\ vs[2].name = "reversed" /\ Len(vs[2].rows) = n
        /\ \A i \in 1..n : vs[2].rows[i] = rows[n + 1 - i]
        /\ n > 6 =>
             /\ vs[3].name = "drop_first_3" /\ Len(vs[3].rows) = n - 3
             /\ \A i \in 1..(n - 3) : vs[3].rows[i] = rows[i + 3]
             /\ vs[4].name = "drop_last_3" /\ Len(vs[4].rows) = n - 3
             /\ \A i \in 1..(n - 3) : vs[4].rows[i] = rows[i]
        /\ Len(calls) <= Len(vs)
        /\ \A j \in 1..Len(calls) : calls[j] = vs[j].name
        /\ (pc = "retry_loop" /\ calls # << >>)
             => sel = choose_best_hypothesis(vs[Len(calls)].rows)
        /\ (pc = "retried" /\ final.decision # "accepted")
             => Len(calls) = IF n <= 6 THEN 2 ELSE 4

C20_Witness ==
    /\ pc = "retried"
    /\ Len(rows) = 7
    /\ Len(calls) = 4
    /\ final.decision = "rejected"

\* C12: every emitted transaction has deposit >= 0, withdrawal >= 0, at most
\* one of them non-zero, and amount = deposit - withdrawal, whichever rule
\* (marker, Dual columns, balance delta) decided it.
C12_TransactionSigns ==
    \A k \in 1..Len(transactions.list) :
        LET tx == transactions.list[k]
        IN  /\ tx.deposit >= 0
            /\ tx.withdrawal >= 0
            /\ tx.deposit = 0 \/ tx.withdrawal = 0
            /\ tx.amount = tx.deposit - tx.withdrawal

\* the rule that decided transaction tx
RuleOf(tx) ==
    LET row == rows[tx.row]
        e == extract_explicit_dr_cr(row, arg_schema.balance_x)
    IN  IF e.deposit # None THEN "marker"
        ELSE IF DualColumns(row, arg_schema, e).deposit # None THEN "columns"
        ELSE "delta"

C12_Witness ==
    /\ pc = "extracted"
    /\ \E a, b \in 1..Len(transactions.list) :
          /\ RuleOf(transactions.list[a]) = "delta"
          /\ transactions.list[a].withdrawal > 0
          /\ RuleOf(transactions.list[b]) = "delta"
          /\ transactions.list[b].deposit > 0

C12_WitnessMarker ==
    /\ pc = "extracted"
    /\ \E a \in 1..Len(transactions.list) :
          /\ RuleOf(transactions.list[a]) = "marker"
          /\ transactions.list[a].withdrawal > 0

C12_WitnessColumns ==
    /\ pc = "extracted"
    /\ \E a \in 1..Len(transactions.list) :
          /\ RuleOf(transactions.list[a]) = "columns"
          /\ transactions.list[a].deposit > 0

\* sum of deposit - withdrawal over the transactions of txs from k on whose
\* source row is not `skip`
RECURSIVE NetFrom(_, _, _)
NetFrom(txs, k, skip) ==
    IF k > Len(txs) THEN 0
    ELSE (IF rows[txs[k].row] = skip THEN 0 ELSE txs[k].deposit - txs[k].withdrawal)
         + NetFrom(txs, k + 1, skip)

\* the schema is the Selector's choice for the row list and every row after
\* the bootstrap row reconciled when it was validated
FullyReconciled ==
    LET B == BalanceRows(SortedDated(rows), arg_schema)
    IN  /\ choose_best_hypothesis(rows).schema = arg_schema
        /\ tally.errors = 0
        /\ tally.reconciled = Cardinality(B)
        /\ Cardinality(B) >= 2

\* C13: for an accepted schema under which all N rows after the bootstrap row
\* reconcile, the transactions emitted for those rows satisfy
\* |sum(deposit - withdrawal) - (balance_N - balance_0)| <= N x epsilon.
C13_BalanceDelta ==
    (pc = "extracted" /\ FullyReconciled) =>
        LET sorted == SortedDated(rows)
            B  == BalanceRows(sorted, arg_schema)
            i0 == CHOOSE i \in B : \A j \in B : i <= j
            iN == CHOOSE i \in B : \A j \in B : j <= i
            balance_0 == extract_amount(sorted[i0], arg_schema.balance_x)
            balance_N == extract_amount(sorted[iN], arg_schema.balance_x)
            N == Cardinality(B) - 1
        IN  Abs(NetFrom(transactions.list, 1, sorted[i0]) - (balance_N - balance_0))
                <= N * epsilon

\* the same statement holds on some fully reconciled statement
C13_HoldsSomewhere ==
    /\ pc = "extracted"
    /\ FullyReconciled
    /\ C13_BalanceDelta
    /\ Len(transactions.list) = Len(rows)

\* the positions at which the tokens of a column of the statement start or end
ColumnEdges(p, name) ==
    LET InColumn(i, k) ==
            /\ (k = 4) = (name = "balance")
            /\ (k = 3 => (name = "deposit")
                           = RecoveryIsDeposit(IF p.newestFirst THEN p.n + 1 - i ELSE i))
    IN  UNION { UNION { { rows[i][k].x0, rows[i][k].x1 } :
                        k \in { kk \in 3..4 : InColumn(i, kk) } } :
                i \in 1..Len(rows) }

\* C14: on at least 12 dated rows with a deposit, a withdrawal and a balance
\* column, one amount per row and balances the running sum in date order,
\* the Selector returns the Dual schema on those three columns with
\* confidence >= 0.95, not a Single schema nor the Dual schema with deposit
\* and withdrawal swapped.
C14_DualSchemaRecovered ==
    pc = "returned" =>
        /\ sel.schema.type = "dual"
        /\ sel.schema.deposit_x \in ColumnEdges(shape, "deposit")
        /\ sel.schema.withdrawal_x \in ColumnEdges(shape, "withdrawal")
        /\ sel.schema.balance_x \in ColumnEdges(shape, "balance")
        /\ sel.confidence >= (95 * ConfOne) \div 100

\* the claim's outcome is reached on some statement of the family
C14_RecoveredSomewhere ==
    /\ pc = "returned"
    /\ C14_DualSchemaRecovered
    /\ shape.rightAligned
    /\ ~ shape.depLeft

RECURSIVE Concat(_, _, _)
Concat(groups, i, k) ==
    IF k < 0 THEN << >> ELSE Concat(groups, i, k - 1) \o groups[i + k]

\* line b of the page lies within MERGE_GAP of line a (mean y of their words)
WithinMergeGap(a, b) ==
    SumY(b, 1) * Len(a) - SumY(a, 1) * Len(b) <= MERGE_GAP * Len(a) * Len(b)

\* the date line i of the page can absorb its k following lines
Absorbs(groups, i, k) ==
    /\ i + k <= Len(groups)
    /\ \A m \in 1..k : /\ ~ has_date(groups[i + m])
                       /\ WithinMergeGap(groups[i + m - 1], groups[i + m])
    /\ count_amounts(Concat(groups, i, k)) >= 2

\* the candidates that begin with the words of line i and go beyond it
GrownFrom(groups, i) ==
    { c \in 1..Len(detected) :
        /\ Len(detected[c]) > Len(groups[i])
        /\ SubSeq(detected[c], 1, Len(groups[i])) = groups[i] }

DateLines(groups) ==
    { i \in 1..Len(groups) : has_date(groups[i]) /\ ~ is_transaction_row(groups[i]) }

\* C16: a line with a date that is no transaction row by itself is merged
\* with its following date-free lines, at most 2, each within MERGE_GAP of
\* the line absorbed before it, into one candidate holding the tokens of all
\* merged lines as soon as the merged set has >= 2 amounts; if the next line
\* is farther than MERGE_GAP or has its own date, the date line yields no
\* candidate.
C16_DateAnchoredMerge ==
    pc = "assembled" =>
        \A p \in 1..Len(line_groups) : \A i \in DateLines(line_groups[p]) :
            LET groups == line_groups[p]
                ks == { k \in 1..(MAX_MERGE_LINES - 1) : Absorbs(groups, i, k) }
            IN  IF ks = { }
                THEN GrownFrom(groups, i) = { }
                ELSE LET k == CHOOSE k1 \in ks : \A k2 \in ks : k1 <= k2
                     IN  /\ Cardinality(GrownFrom(groups, i)) = 1
                         /\ \A c \in GrownFrom(groups, i) : detected[c] = Concat(groups, i, k)

\* a date line merged with the line exactly MERGE_GAP below it, and a later
\* date line on the same page left without candidate because its next line
\* is farther than MERGE_GAP
C16_Witness ==
    /\ pc = "assembled"
    /\ \E p \in 1..Len(line_groups) :
           LET groups == line_groups[p]
           IN  \E i \in DateLines(groups), i2 \in DateLines(groups) :
                   /\ i + 1 < i2
                   /\ i2 < Len(groups)
                   /\ Absorbs(groups, i, 1)
                   /\ SumY(groups[i + 1], 1) * Len(groups[i]) - SumY(groups[i], 1) * Len(groups[i + 1])
                          = MERGE_GAP * Len(groups[i]) * Len(groups[i + 1])
                   /\ detected[Len(detected)] = Concat(groups, i, 1)
                   /\ ~ has_date(groups[i2 + 1])
                   /\ ~ WithinMergeGap(groups[i2], groups[i2 + 1])
                   /\ GrownFrom(groups, i2) = { }

\* a date line merged with its two following lines
C16_WitnessTwoLines ==
    /\ pc = "assembled"
    /\ \E p \in 1..Len(line_groups) :
           LET groups == line_groups[p]
           IN  \E i \in DateLines(groups) :
                   /\ ~ Absorbs(groups, i, 1)
                   /\ Absorbs(groups, i, 2)
                   /\ \E c \in GrownFrom(groups, i) : detected[c] = Concat(groups, i, 2)

\* three date-free lines follow a date line within MERGE_GAP of each other and
\* only the third brings the second amount: the cap leaves the date line
\* without candidate
C16_WitnessCap ==
    /\ pc = "assembled"
    /\ \E p \in 1..Len(line_groups) :
           LET groups == line_groups[p]
           IN  \E i \in DateLines(groups) :
                   /\ i + 3 <= Len(groups)
                   /\ \A m \in 1..3 : /\ ~ has_date(groups[i + m])
                                      /\ WithinMergeGap(groups[i + m - 1], groups[i + m])
                   /\ count_amounts(Concat(groups, i, 2)) < 2
                   /\ count_amounts(Concat(groups, i, 3)) >= 2
                   /\ GrownFrom(groups, i) = { }

C17_WitnessCommitted ==
    /\ pc = "done"
    /\ outcome = "extracted"
    /\ db.committed
    /\ db.saved > 0

\* C18: every run of the document pipeline eventually reaches a final
\* outcome, a transaction list or a schema-detection failure, whatever the
\* oracle does (valid or malformed answer, error, no answer until the
\* timeout): the arbitration call always returns.
C18_PipelineTerminates ==
    <>(pc = "done" /\ outcome \in { "extracted", "failed", "raised" })

\* a run that reached its final outcome after the oracle gave no answer
\* until the timeout
C18_Witness ==
    /\ pc = "done"
    /\ outcome \in { "extracted", "failed", "raised" }
    /\ reply.kind = "timeout"
    /\ Len(calls) = 4

\* C19: choose_best_hypothesis and retry_with_variants leave the caller's row
\* list as it was (same length, order and tokens) through every Selector
\* call and variant evaluation, and the list handed to extract_transactions
\* is the Row Assembler's output.
C19_RowsReadOnly ==
    /\ rows = InputRows(shape)
    /\ transactions.returned =>
           transactions.list = extract_transactions(InputRows(shape), used.schema, used.confidence)

\* a newest-first statement extracted after the Selector and three variants
\* (the caller's list, its reverse and its tail) were evaluated on it
C19_Witness ==
    /\ pc = "done"
    /\ outcome = "extracted"
    /\ shape.newestFirst
    /\ ~ shape.sameDate
    /\ calls = << "original", "reversed", "drop_first_3" >>
    /\ transactions.returned
    /\ rows = InputRows(shape)

\* ------------------------------------------------------------------
\* stage4_validation.validate_hypothesis, its for loop run one row at a
\* time on ledger rows: a date and, each optional, a deposit, a withdrawal
\* and a balance in three columns.
\* ------------------------------------------------------------------
MaxValidated == 3

LedgerColumn == [dep |-> 100, wd |-> 200, bal |-> 300]

LedgerKinds == [dep : { None, 5 }, wd : { None, 5 }, bal : { None, 100, 105 }]

LedgerParams ==
    UNION { [1..n -> LedgerKinds] : n \in 1..MaxValidated }

LedgerCell(k, name) ==
    IF k[name] = None THEN << >>
    ELSE << Tok(AmtText(k[name], TRUE), LedgerColumn[name], 30) >>

LedgerRow(k, d) ==
    << Tok(DateText(d), 10, 40) >> \o LedgerCell(k, "dep") \o LedgerCell(k, "wd")
        \o LedgerCell(k, "bal")

LedgerRows(kinds) ==
    [i \in 1..Len(kinds) |-> LedgerRow(kinds[i], i)]

\* the amount the ledger row of kind k carries in the column at x
LedgerAt(k, x) ==
    IF x = LedgerColumn.dep THEN k.dep
    ELSE IF x = LedgerColumn.wd THEN k.wd
    ELSE IF x = LedgerColumn.bal THEN k.bal
    ELSE None

\* lines 20-22: the tallies and previous_balance before the first row
ValidateBegin ==
    /\ pc = "call"
    /\ entry = "validate_hypothesis"
    /\ loop = NoLoop
    /\ loop' = [i |-> 1,
                st |-> [reconciled |-> 0, errors |-> 0, prev |-> None],
                before |-> [reconciled |-> 0, errors |-> 0, prev |-> None]]
    /\ pc' = "loop"
    /\ UNCHANGED << entry, rows, LLM_ENABLED, retry_thr, sel, vi, calls, candidates,
                    final, arbArg, reply, arb, used, outcome, cols, hyps,
                    arg_schema, tally, transactions, words, line_groups, detected,
                    db, shape, ret >>

\* lines 24-82: one iteration of  for row in rows
ValidateStep ==
    /\ pc = "loop"
    /\ entry = "validate_hypothesis"
    /\ loop.i <= Len(rows)
    /\ loop' = [i |-> loop.i + 1,
                st |-> ValidateRow(rows[loop.i], arg_schema, loop.st),
                before |-> loop.st]
    /\ UNCHANGED << entry, pc, rows, LLM_ENABLED, retry_thr, sel, vi, calls, candidates,
                    final, arbArg, reply, arb, used, outcome, cols, hyps,
                    arg_schema, tally, transactions, words, line_groups, detected,
                    db, shape, ret >>

\* lines 84-87: the result once the rows are exhausted
ValidateReturn ==
    /\ pc = "loop"
    /\ entry = "validate_hypothesis"
    /\ loop.i > Len(rows)
    /\ tally' = [reconciled |-> loop.st.reconciled, errors |-> loop.st.errors]
    /\ pc' = "validated"
    /\ UNCHANGED << entry, rows, LLM_ENABLED, retry_thr, sel, vi, calls, candidates,
                    final, arbArg, reply, arb, used, outcome, cols, hyps,
                    arg_schema, transactions, words, line_groups, detected,
                    db, shape, loop, ret >>

InitValidateLoop ==
    /\ entry = "validate_hypothesis"
    /\ pc = "call"
    /\ \E kinds \in LedgerParams : shape = [n |-> Len(kinds), kinds |-> kinds]
    /\ rows = LedgerRows(shape.kinds)
    /\ arg_schema \in HypothesesOf(rows)
    /\ LLM_ENABLED = TRUE
    /\ retry_thr = retry_threshold
    /\ cols = << >>
    /\ line_groups = << >>
    /\ words = << >>
    /\ InitCommon

NextValidateLoop == ValidateBegin \/ ValidateStep \/ ValidateReturn

SpecValidateLoop == InitValidateLoop /\ [][NextValidateLoop]_vars

\* an iteration of the loop has just run
Stepped == pc = "loop" /\ loop.i > 1

\* the kind of the row the last iteration ran on
LastKind == shape.kinds[loop.i - 1]

\* what the last row carries in the schema's column named key
LastAt(key) == LedgerAt(LastKind, Get(arg_schema, key))

Reconciled == loop.st.reconciled = loop.before.reconciled + 1 /\ loop.st.errors = loop.before.errors
Errored == loop.st.errors = loop.before.errors + 1 /\ loop.st.reconciled = loop.before.reconciled
Untallied == loop.st.reconciled = loop.before.reconciled /\ loop.st.errors = loop.before.errors

\* C21: under a dual schema, a row after the bootstrap row that has a
\* balance is checked by exactly one rule: with a deposit it reconciles iff
\* |prev + dep - bal| <= 1, whatever the withdrawal column holds; else with a
\* withdrawal iff |prev - wd - bal| <= 1; with neither it reconciles
\* unchecked; a failed check is one error.
C21_DualOneRule ==
    (Stepped /\ arg_schema.type = "dual" /\ loop.before.prev # None /\ LastAt("balance_x") # None) =>
        LET prev == loop.before.prev
            bal == LastAt("balance_x")
            dep == LastAt("deposit_x")
            wd == LastAt("withdrawal_x")
            passes == IF dep # None THEN Abs(prev + dep - bal) <= epsilon
                      ELSE IF wd # None THEN Abs(prev - wd - bal) <= epsilon
                      ELSE TRUE
        IN  IF passes THEN Reconciled ELSE Errored

\* a row with both a deposit and a withdrawal whose deposit does not
\* reconcile while its withdrawal would: it is an error
C21_Witness ==
    /\ Stepped
    /\ arg_schema.type = "dual"
    /\ loop.before.prev = 105
    /\ LastAt("balance_x") = 100
    /\ LastAt("deposit_x") = 5
    /\ LastAt("withdrawal_x") = 5
    /\ Errored

\* a row with a withdrawal only, reconciled
C21_WitnessWithdrawal ==
    /\ Stepped
    /\ arg_schema.type = "dual"
    /\ loop.before.prev = 105
    /\ LastAt("balance_x") = 100
    /\ LastAt("deposit_x") = None
    /\ LastAt("withdrawal_x") = 5
    /\ Reconciled

\* a row with neither amount whose balance moved, reconciled unchecked
C21_WitnessNeither ==
    /\ Stepped
    /\ arg_schema.type = "dual"
    /\ loop.before.prev = 105
    /\ LastAt("balance_x") = 100
    /\ LastAt("deposit_x") = None
    /\ LastAt("withdrawal_x") = None
    /\ Reconciled

\* C22: under a single schema, a row after the bootstrap row with a balance
\* and no amount at amount_x increments neither tally; with an amount it
\* reconciles iff |prev + amt - bal| <= 1 or |prev - amt - bal| <= 1, and is
\* one error otherwise.
C22_SingleRule ==
    (Stepped /\ arg_schema.type = "single" /\ loop.before.prev # None /\ LastAt("balance_x") # None) =>
        LET prev == loop.before.prev
            bal == LastAt("balance_x")
            amt == LastAt("amount_x")
        IN  IF amt = None THEN Untallied
            ELSE IF Abs(prev + amt - bal) <= epsilon \/ Abs(prev - amt - bal) <= epsilon
            THEN Reconciled
            ELSE Errored

\* a row without an amount whose balance moved: neither tally counts it
C22_Witness ==
    /\ Stepped
    /\ arg_schema.type = "single"
    /\ loop.before.prev = 100
    /\ LastAt("balance_x") = 105
    /\ LastAt("amount_x") = None
    /\ Untallied

\* a row reconciled as a withdrawal, and one that reconciles neither way
C22_WitnessSigned ==
    /\ Stepped
    /\ arg_schema.type = "single"
    /\ LastAt("amount_x") = 5
    /\ \/ loop.before.prev = 105 /\ LastAt("balance_x") = 100 /\ Reconciled
       \/ loop.before.prev = 100 /\ LastAt("balance_x") = 100 /\ Errored

\* C23: after any row with an extractable balance previous_balance is that
\* row's balance, whether the row was the bootstrap row, reconciled, was an
\* error or was skipped for want of an amount; a row without a balance
\* changes neither previous_balance nor the tallies.
C23_PreviousBalanceFollows ==
    Stepped =>
        IF LastAt("balance_x") # None
        THEN loop.st.prev = LastAt("balance_x")
        ELSE loop.st = loop.before

\* a row that failed its check moved previous_balance all the same
C23_Witness ==
    /\ Stepped
    /\ Errored
    /\ loop.before.prev = 100
    /\ LastAt("balance_x") = 105
    /\ loop.st.prev = 105

\* a row without a balance between two rows with one
C23_WitnessNoBalance ==
    /\ Stepped
    /\ loop.before.prev = 100
    /\ LastAt("balance_x") = None
    /\ LastKind.dep = 5
    /\ loop.st = loop.before

\* ------------------------------------------------------------------
\* stage9_extraction.extract_transactions, its for loop run one row at a
\* time on journal rows: a date (or none), a narration word (or a summary
\* keyword), optionally a narration token carrying (Cr) or (Dr), a deposit,
\* a withdrawal, and a balance that may itself carry (Dr).
\* ------------------------------------------------------------------
MaxExtracted == 3

JournalKind(skip, mark, dep, wd, bal) ==
    [skip |-> skip, mark |-> mark, dep |-> dep, wd |-> wd, bal |-> bal]

JournalKinds ==
    { JournalKind("summary", "none", 5, None, 105),
      JournalKind("undated", "none", 5, None, 105),
      JournalKind("none", "none", 5, None, None),
      JournalKind("none", "none", None, None, 100),
      JournalKind("none", "none", None, None, 105),
      JournalKind("none", "none", 5, None, 105),
      JournalKind("none", "none", None, 7, 100),
      JournalKind("none", "none", 5, 7, 100),
      JournalKind("none", "cr", 5, 7, 100),
      JournalKind("none", "dr", None, None, 105),
      JournalKind("none", "balance", None, None, 105),
      JournalKind("none", "balance", None, 7, 100) }

JournalParams ==
    UNION { [1..n -> JournalKinds] : n \in 1..MaxExtracted }

\* the narration token that carries the marker: its amount and position
JournalMark == [v |-> 9, x0 |-> 150]

JournalRow(k, d) ==
    (IF k.skip = "undated" THEN << >> ELSE << Tok(DateText(d), 10, 40) >>)
    \o << Tok(IF k.skip = "summary" THEN SummaryText ELSE WordText, 60, 30) >>
    \o (IF k.mark \in { "cr", "dr" } THEN << Tok(MarkedText(JournalMark.v, k.mark), JournalMark.x0, 30) >> ELSE << >>)
    \o LedgerCell(k, "dep") \o LedgerCell(k, "wd")
    \o (IF k.bal = None THEN << >>
        ELSE << Tok(IF k.mark = "balance" THEN MarkedText(k.bal, "dr") ELSE AmtText(k.bal, TRUE),
                    LedgerColumn.bal, 30) >>)

JournalRows(kinds) ==
    [i \in 1..Len(kinds) |-> JournalRow(kinds[i], i)]

JournalSchemas ==
    { DualSchema(LedgerColumn.dep, LedgerColumn.wd, LedgerColumn.bal),
      DualSchema(LedgerColumn.wd, LedgerColumn.dep, LedgerColumn.bal),
      SingleSchema(LedgerColumn.dep, LedgerColumn.bal) }

\* lines 94-153: one iteration of  for row in rows  on row i, from the list
\* built so far and prev_balance
ExtractRow(row, sch, confidence, i, st) ==
    LET date == extract_date(row)
        balance == extract_amount(row, Get(sch, "balance_x"))
    IN  IF is_summary_row(row) \/ date = None \/ balance = None THEN st
        ELSE LET dw == BalanceDelta(balance, st.prev,
                           DualColumns(row, sch,
                               extract_explicit_dr_cr(row, Get(sch, "balance_x"))))
             IN  [prev |-> balance,
                  list |-> Append(st.list, Transaction(i, date, dw, balance, confidence))]

\* lines 91-92
ExtractBegin ==
    /\ pc = "call"
    /\ entry = "extract_transactions"
    /\ loop = NoLoop
    /\ loop' = [i |-> 1, st |-> [prev |-> None, list |-> << >>],
                before |-> [prev |-> None, list |-> << >>]]
    /\ pc' = "loop"
    /\ UNCHANGED << entry, rows, LLM_ENABLED, retry_thr, sel, vi, calls, candidates,
                    final, arbArg, reply, arb, used, outcome, cols, hyps,
                    arg_schema, tally, transactions, words, line_groups, detected,
                    db, shape, ret >>

ExtractStep ==
    /\ pc = "loop"
    /\ entry = "extract_transactions"
    /\ loop.i <= Len(rows)
    /\ loop' = [i |-> loop.i + 1,
                st |-> ExtractRow(rows[loop.i], arg_schema, ConfOne, loop.i, loop.st),
                before |-> loop.st]
    /\ UNCHANGED << entry, pc, rows, LLM_ENABLED, retry_thr, sel, vi, calls, candidates,
                    final, arbArg, reply, arb, used, outcome, cols, hyps,
                    arg_schema, tally, transactions, words, line_groups, detected,
                    db, shape, ret >>

\* line 155
ExtractReturn ==
    /\ pc = "loop"
    /\ entry = "extract_transactions"
    /\ loop.i > Len(rows)
    /\ transactions' = [returned |-> TRUE, list |-> loop.st.list]
    /\ pc' = "extracted"
    /\ UNCHANGED << entry, rows, LLM_ENABLED, retry_thr, sel, vi, calls, candidates,
                    final, arbArg, reply, arb, used, outcome, cols, hyps,
                    arg_schema, tally, words, line_groups, detected,
                    db, shape, loop, ret >>

InitExtractLoop ==
    /\ entry = "extract_transactions"
    /\ pc = "call"
    /\ \E kinds \in JournalParams : shape = [n |-> Len(kinds), kinds |-> kinds]
    /\ rows = JournalRows(shape.kinds)
    /\ arg_schema \in JournalSchemas
    /\ LLM_ENABLED = TRUE
    /\ retry_thr = retry_threshold
    /\ cols = << >>
    /\ line_groups = << >>
    /\ words = << >>
    /\ InitCommon

NextExtractLoop == ExtractBegin \/ ExtractStep \/ ExtractReturn

SpecExtractLoop == InitExtractLoop /\ [][NextExtractLoop]_vars

\* the last iteration appended a transaction
Emitted == Len(loop.st.list) = Len(loop.before.list) + 1

\* the transaction the last iteration appended
LastEmitted == loop.st.list[Len(loop.st.list)]

\* deposit and withdrawal the priority rules give the last row
Expected ==
    LET k == LastKind
        dep == LedgerAt(k, Get(arg_schema, "deposit_x"))
        wd == LedgerAt(k, Get(arg_schema, "withdrawal_x"))
        prev == loop.before.prev
    IN  IF k.mark = "cr" THEN << JournalMark.v, 0 >>
        ELSE IF k.mark = "dr" THEN << 0, JournalMark.v >>
        ELSE IF arg_schema.type = "dual" /\ dep # None THEN << dep, 0 >>
        ELSE IF arg_schema.type = "dual" /\ wd # None THEN << 0, wd >>
        ELSE IF prev = None THEN << 0, 0 >>
        ELSE IF k.bal - prev >= 0 THEN << k.bal - prev, 0 >>
        ELSE << 0, prev - k.bal >>

\* C24: extract_transactions gives each emitted row its deposit and
\* withdrawal by the first applicable rule: an explicit Cr/Dr marker on a
\* token outside the balance column; under a dual schema the deposit column
\* if it has a value, else the withdrawal column; otherwise the delta to the
\* balance of the previously emitted row (both 0 when there is none).
\* previous_balance is the row's balance after every emitted row and is left
\* alone by skipped rows.
C24_PriorityRules ==
    (pc = "loop" /\ entry = "extract_transactions" /\ loop.i > 1) =>
        IF LastKind.skip # "none" \/ LastKind.bal = None
        THEN loop.st = loop.before
        ELSE /\ Emitted
             /\ SubSeq(loop.st.list, 1, Len(loop.before.list)) = loop.before.list
             /\ << LastEmitted.deposit, LastEmitted.withdrawal >> = Expected
             /\ LastEmitted.balance = LastKind.bal
             /\ loop.st.prev = LastKind.bal

\* a row emitted from the balance delta to the last emitted row, a skipped
\* summary row with another balance lying between the two
C24_Witness ==
    /\ pc = "loop" /\ entry = "extract_transactions"
    /\ loop.i = 4
    /\ shape.kinds[1] = JournalKind("none", "none", None, None, 100)
    /\ shape.kinds[2].skip = "summary"
    /\ shape.kinds[3] = JournalKind("none", "none", None, None, 100)
    /\ Emitted
    /\ LastEmitted.deposit = 0 /\ LastEmitted.withdrawal = 0
    /\ loop.before.prev = 100

\* a marker beats the columns of a dual schema; the marker on the balance
\* token is not one, and the withdrawal column decides
C24_WitnessMarker ==
    /\ pc = "loop" /\ entry = "extract_transactions"
    /\ loop.i > 1
    /\ arg_schema = DualSchema(LedgerColumn.dep, LedgerColumn.wd, LedgerColumn.bal)
    /\ Emitted
    /\ \/ LastKind = JournalKind("none", "cr", 5, 7, 100)
          /\ LastEmitted.deposit = JournalMark.v /\ LastEmitted.withdrawal = 0
       \/ LastKind = JournalKind("none", "balance", None, 7, 100)
          /\ LastEmitted.deposit = 0 /\ LastEmitted.withdrawal = 7

\* both columns filled under a dual schema: the deposit column wins
C24_WitnessDepositFirst ==
    /\ pc = "loop" /\ entry = "extract_transactions"
    /\ loop.i > 1
    /\ arg_schema.type = "dual"
    /\ LastKind = JournalKind("none", "none", 5, 7, 100)
    /\ Emitted
    /\ LastEmitted.withdrawal = 0
    /\ loop.before.prev = 105

\* a negative balance delta booked as a withdrawal
C24_WitnessDelta ==
    /\ pc = "loop" /\ entry = "extract_transactions"
    /\ loop.i > 1
    /\ LastKind = JournalKind("none", "none", None, None, 100)
    /\ loop.before.prev = 105
    /\ Emitted
    /\ LastEmitted.deposit = 0 /\ LastEmitted.withdrawal = 5

\* ------------------------------------------------------------------
\* stage4_validation.extract_amount called on its own, on a row of up to
\* MaxTokens tokens (amounts and words at nearby positions, in any order)
\* and a target position
\* ------------------------------------------------------------------
MaxTokens == 3

TokenPositions == { 100, 120, 130, 150 }

TokenChoices ==
    { Tok(AmtText(v, TRUE), x, 8) : v \in { 5, 7 }, x \in TokenPositions }
    \cup { Tok(WordText, x, 8) : x \in TokenPositions }

TokenRows ==
    UNION { [1..n -> TokenChoices] : n \in 0..MaxTokens }

Targets == TokenPositions \cup { None, 115 }

ExtractAmount ==
    /\ pc = "call"
    /\ entry = "extract_amount"
    /\ ret' = [returned |-> TRUE, value |-> extract_amount(rows[1], shape.target_x)]
    /\ pc' = "returned"
    /\ UNCHANGED << entry, rows, LLM_ENABLED, retry_thr, sel, vi, calls, candidates,
                    final, arbArg, reply, arb, used, outcome, cols, hyps,
                    arg_schema, tally, transactions, words, line_groups, detected,
                    db, shape, loop >>

InitAmount ==
    /\ entry = "extract_amount"
    /\ pc = "call"
    /\ \E row \in TokenRows : rows = << row >>
    /\ \E x \in Targets : shape = [n |-> 1, target_x |-> x]
    /\ arg_schema = NoSchema
    /\ LLM_ENABLED = TRUE
    /\ retry_thr = retry_threshold
    /\ cols = << >>
    /\ line_groups = << >>
    /\ words = << >>
    /\ InitCommon

SpecAmount == InitAmount /\ [][ExtractAmount]_vars

\* the positions in the row of the amount tokens within the tolerance of x
InTolerance(row, x) ==
    { i \in 1..Len(row) : IsAmount3(row[i].text) /\ Abs(row[i].x0 - x) <= tol }

\* those of them no other is nearer to x than
Nearest(row, x) ==
    { i \in InTolerance(row, x) :
        \A j \in InTolerance(row, x) : Abs(row[i].x0 - x) <= Abs(row[j].x0 - x) }

\* C25: extract_amount(row, target_x) returns the value of the amount token
\* nearest to target_x among the amount tokens of the row within the
\* tolerance of 15, whatever the order of the tokens in the row, and None
\* when there is no such token or target_x is None.
C25_NearestToken ==
    (pc = "returned" /\ entry = "extract_amount") =>
        LET row == rows[1]
            x == shape.target_x
        IN  IF x = None \/ InTolerance(row, x) = {}
            THEN ret.value = None
            ELSE \E i \in Nearest(row, x) : ret.value = row[i].text.v

\* None is returned exactly when target_x is None or no amount token lies
\* within the tolerance, and the value returned is that of an amount token
\* within the tolerance
C25_WithinTolerance ==
    (pc = "returned" /\ entry = "extract_amount") =>
        LET row == rows[1]
            x == shape.target_x
        IN  IF x = None \/ InTolerance(row, x) = {}
            THEN ret.value = None
            ELSE \E i \in InTolerance(row, x) : ret.value = row[i].text.v

\* a row whose nearest amount token is also the first one within the
\* tolerance: its value is returned
C25_HoldsSomewhere ==
    /\ pc = "returned" /\ entry = "extract_amount"
    /\ shape.target_x = 130
    /\ Len(rows[1]) = 3
    /\ Nearest(rows[1], 130) = { 2 }
    /\ InTolerance(rows[1], 130) = { 2, 3 }
    /\ ret.value = rows[1][2].text.v

\* the line groups of every page, after the base line-grouping
GroupsOfPages ==
    UNION { { line_groups[k][g] : g \in 1..Len(line_groups[k]) } : k \in 1..Len(line_groups) }

\* C26: in the base line-grouping of detect_candidate_rows every token of a
\* line group lies within Y_TOL = 8 of the line's anchor, the y of the first
\* token of the line in ascending-y order: no line group spans more than
\* Y_TOL, and a token farther than Y_TOL from the anchor starts a new line.
C26_WithinAnchor ==
    (pc = "assembled" /\ entry = "detect_candidate_rows") =>
        \A g \in GroupsOfPages :
            \A i \in 1..Len(g) : Abs(g[i].y - g[1].y) <= Y_TOL

\* every token of a line group lies within Y_TOL of the token before it,
\* and the first token of a line group is farther than Y_TOL from the last
\* token of the line group before
C26_WithinPrevious ==
    (pc = "assembled" /\ entry = "detect_candidate_rows") =>
        /\ \A g \in GroupsOfPages :
               \A i \in 2..Len(g) : Abs(g[i].y - g[i - 1].y) <= Y_TOL
        /\ \A k \in 1..Len(line_groups) : \A n \in 2..Len(line_groups[k]) :
               LET before == line_groups[k][n - 1]
               IN  Abs(line_groups[k][n][1].y - before[Len(before)].y) > Y_TOL

\* a document whose lines are level: every line group within Y_TOL of its
\* anchor, over several line groups
C26_HoldsSomewhere ==
    /\ pc = "assembled" /\ entry = "detect_candidate_rows"
    /\ shape.skew = 0
    /\ Len(shape.kinds) = 3
    /\ Cardinality(GroupsOfPages) >= 2
    /\ \A g \in GroupsOfPages : \A i \in 1..Len(g) : Abs(g[i].y - g[1].y) <= Y_TOL

\* ------------------------------------------------------------------
\* extract_numeric_columns called on a row list, and extract_amount then
\* called on a row with one of the columns it returned
\* ------------------------------------------------------------------
\* the position in the row of the token extract_amount returns the value
\* of: the first one within the tolerance whose text is an amount
RECURSIVE FoundFrom(_, _, _)
FoundFrom(row, target_x, i) ==
    IF i > Len(row) THEN None
    ELSE IF Abs(row[i].x0 - target_x) <= tol /\ ParseAmount4(row[i].text) # None
         THEN i
         ELSE FoundFrom(row, target_x, i + 1)

\* the anchoring extract_numeric_columns uses on the row list
UsesRightEdge(rs) ==
    should_use_right_edge({ w.x0 : w \in AmountToks(rs) }, { w.x1 : w \in AmountToks(rs) })

\* the anchor of an amount token under that anchoring
AnchorOf(rs, w) == IF UsesRightEdge(rs) THEN w.x1 ELSE w.x0

DiscoverColumns ==
    /\ pc = "call"
    /\ entry = "extract_numeric_columns"
    /\ cols' = extract_numeric_columns(rows)
    /\ pc' = "columns"
    /\ UNCHANGED << entry, rows, LLM_ENABLED, retry_thr, sel, vi, calls, candidates,
                    final, arbArg, reply, arb, used, outcome, hyps >>
    /\ UNCHANGED ext

\* extract_amount(row, c) for a row of the list and a discovered column c
ReadBack ==
    /\ pc \in { "columns", "read" }
    /\ entry = "extract_numeric_columns"
    /\ \E k \in 1..Len(cols), r \in 1..Len(rows) :
           ret' = [returned |-> TRUE, c |-> cols[k], row |-> r,
                   value |-> extract_amount(rows[r], cols[k]),
                   index |-> FoundFrom(rows[r], cols[k], 1)]
    /\ pc' = "read"
    /\ UNCHANGED << entry, rows, LLM_ENABLED, retry_thr, sel, vi, calls, candidates,
                    final, arbArg, reply, arb, used, outcome, cols, hyps,
                    arg_schema, tally, transactions, words, line_groups, detected,
                    db, shape, loop >>

InitReadBack ==
    /\ entry = "extract_numeric_columns"
    /\ pc = "call"
    /\ shape \in RecoveryParams
    /\ rows = RecoveryRows(shape)
    /\ LLM_ENABLED = TRUE
    /\ retry_thr = retry_threshold
    /\ cols = << >>
    /\ arg_schema = NoSchema
    /\ line_groups = << >>
    /\ words = << >>
    /\ InitCommon

NextReadBack == DiscoverColumns \/ ReadBack

SpecReadBack == InitReadBack /\ [][NextReadBack]_vars

\* the amount tokens of the row read whose anchor produced the column read
Producers ==
    { i \in 1..Len(rows[ret.row]) :
        /\ IsAmount3(rows[ret.row][i].text)
        /\ AnchorOf(rows, rows[ret.row][i]) = ret.c }

\* C27: column discovery and amount extraction agree: for every column c
\* returned by extract_numeric_columns, under left-edge or right-edge
\* anchoring, extract_amount(row, c) finds, in a row that contains it, the
\* amount token whose anchor produced c.
C27_ReadsBackColumn ==
    (pc = "read" /\ entry = "extract_numeric_columns") =>
        \A i \in Producers :
            /\ ret.index = i
            /\ ret.value = rows[ret.row][i].text.v

\* under left-edge anchoring, on rows whose amount tokens are more than the
\* tolerance apart, the token that produced the column is the one read
C27_LeftEdgeReadsBack ==
    (pc = "read" /\ entry = "extract_numeric_columns" /\ ~ UsesRightEdge(rows)) =>
        \A i \in Producers : ret.index = i

\* a right-aligned statement with narrow numbers: the columns are right
\* edges and the balance that produced one is read back
C27_HoldsSomewhere ==
    /\ pc = "read" /\ entry = "extract_numeric_columns"
    /\ UsesRightEdge(rows)
    /\ shape.rightAligned
    /\ Producers # {}
    /\ \A i \in Producers : ret.index = i
    /\ ret.c = 350

\* ------------------------------------------------------------------
\* the columns of a generated schema read on a row with extract_amount, as
\* validate_hypothesis (lines 26, 45, 62-63) and extract_transactions do
\* ------------------------------------------------------------------
\* the column keys of a schema
ColumnKeys(h) == DOMAIN h \ { "type" }

ReadColumns ==
    /\ pc = "call"
    /\ entry = "read_columns"
    /\ ret' = [returned |-> TRUE,
               found |-> [k \in ColumnKeys(arg_schema) |-> FoundFrom(rows[1], arg_schema[k], 1)]]
    /\ pc' = "returned"
    /\ UNCHANGED << entry, rows, LLM_ENABLED, retry_thr, sel, vi, calls, candidates,
                    final, arbArg, reply, arb, used, outcome, cols, hyps,
                    arg_schema, tally, transactions, words, line_groups, detected,
                    db, shape, loop >>

InitReadColumns ==
    /\ entry = "read_columns"
    /\ pc = "call"
    /\ \E row \in TokenRows : rows = << row >>
    /\ shape = NoShape
    /\ arg_schema \in HypothesesOf(rows)
    /\ LLM_ENABLED = TRUE
    /\ retry_thr = retry_threshold
    /\ cols = << >>
    /\ line_groups = << >>
    /\ words = << >>
    /\ InitCommon

SpecReadColumns == InitReadColumns /\ [][ReadColumns]_vars

\* two different columns of the schema were read from one and the same token
Collision ==
    \E k1, k2 \in ColumnKeys(arg_schema) :
        /\ k1 # k2
        /\ ret.found[k1] # None
        /\ ret.found[k1] = ret.found[k2]

\* C28: anti-collision: for every schema emitted by the hypothesis
\* generators and every row, extract_amount never reads one and the same
\* token as the value of two different columns of the schema.
C28_NoCollision ==
    (pc = "returned" /\ entry = "read_columns") => ~ Collision

\* one token read as two columns of a schema whose positions are pairwise at
\* least the generators' spacing apart
C28_CollisionThoughSpaced ==
    /\ pc = "returned" /\ entry = "read_columns"
    /\ Collision
    /\ \A k1, k2 \in ColumnKeys(arg_schema) :
           k1 # k2 => Abs(arg_schema[k1] - arg_schema[k2]) >= spacing

\* a schema whose positions are pairwise more than twice the tolerance
\* apart reads every column from a token of its own
C28_FarApart ==
    (/\ pc = "returned" /\ entry = "read_columns"
     /\ \A k1, k2 \in ColumnKeys(arg_schema) :
            k1 # k2 => Abs(arg_schema[k1] - arg_schema[k2]) > 2 * tol) => ~ Collision

\* a dual schema read on a row without collision, every column found
C28_HoldsSomewhere ==
    /\ pc = "returned" /\ entry = "read_columns"
    /\ arg_schema.type = "dual"
    /\ \A k \in ColumnKeys(arg_schema) : ret.found[k] # None
    /\ ~ Collision

\* ------------------------------------------------------------------
\* choose_best_hypothesis called twice: on a row list, and on a
\* rearrangement of it that keeps the rows of each date in their order
\* ------------------------------------------------------------------
Rearrangements == { "reversed", "rotated", "swapped", "interleaved" }

Odds(rs) == [i \in 1..((Len(rs) + 1) \div 2) |-> rs[2 * i - 1]]
Evens(rs) == [i \in 1..(Len(rs) \div 2) |-> rs[2 * i]]

\* the list rs rearranged: back to front, first row last, rows 5 and 6
\* exchanged, the odd positions before the even ones
Rearranged(rs, how) ==
    IF how = "reversed" THEN Reverse(rs)
    ELSE IF how = "rotated" THEN Tail(rs) \o << Head(rs) >>
    ELSE IF how = "swapped"
    THEN [i \in 1..Len(rs) |-> IF i = 5 THEN rs[6] ELSE IF i = 6 THEN rs[5] ELSE rs[i]]
    ELSE Odds(rs) \o Evens(rs)

\* the rows of the list that carry the date d, in list order
OnDate(rs, d) == SelectSeq(rs, LAMBDA r : extract_date(r) = d)

DatesOf(rs) == { extract_date(rs[i]) : i \in 1..Len(rs) } \ { None }

\* the two lists agree on the relative order of the rows within each date
SameOrderWithinDates(rs, qs) ==
    \A d \in DatesOf(rs) : OnDate(rs, d) = OnDate(qs, d)

PermutedParams ==
    { p \in Params : p.h = 0 /\ ~ p.mostlyDeposits /\ p.n \in { min_rows, MaxRows } }

ChooseBestTwice ==
    /\ pc = "call"
    /\ entry = "choose_best_hypothesis"
    /\ sel' = choose_best_hypothesis(rows)
    /\ ret' = [returned |-> TRUE,
               value |-> choose_best_hypothesis(Rearranged(rows, shape.how))]
    /\ pc' = "returned"
    /\ rows' = RowsAfterCall(rows)
    /\ UNCHANGED << entry, LLM_ENABLED, retry_thr, vi, calls, candidates,
                    final, arbArg, reply, arb, used, outcome, cols, hyps,
                    arg_schema, tally, transactions, words, line_groups, detected,
                    db, shape, loop >>

InitPermuted ==
    /\ entry = "choose_best_hypothesis"
    /\ pc = "call"
    /\ \E p \in PermutedParams, how \in Rearrangements :
           /\ SameOrderWithinDates(InputRows(p), Rearranged(InputRows(p), how))
           /\ shape = [how |-> how] @@ p
    /\ rows = InputRows(shape)
    /\ LLM_ENABLED = TRUE
    /\ retry_thr = retry_threshold
    /\ cols = << >>
    /\ arg_schema = NoSchema
    /\ line_groups = << >>
    /\ words = << >>
    /\ InitCommon

SpecPermuted == InitPermuted /\ [][ChooseBestTwice]_vars

\* C29: choose_best_hypothesis depends on the order of its input rows only
\* through the relative order of the rows that share a parsed date: two
\* lists that are permutations of one another and agree on that order yield
\* the same schema and the same confidence.
C29_OrderWithinDatesOnly ==
    (pc = "returned" /\ entry = "choose_best_hypothesis") =>
        /\ ret.value.schema = sel.schema
        /\ ret.value.confidence = sel.confidence

\* a statement and its reverse, both given the same schema with a
\* confidence below 1
C29_Witness ==
    /\ pc = "returned" /\ entry = "choose_best_hypothesis"
    /\ shape.how = "reversed"
    /\ ~ shape.sameDate
    /\ Rearranged(InputRows(shape), shape.how) # InputRows(shape)
    /\ sel.schema # NoSchema
    /\ sel.confidence > 0 /\ sel.confidence < ConfOne
    /\ ret.value.schema = sel.schema
    /\ ret.value.confidence = sel.confidence

\* rows of one date with an undated row moved among them
C29_WitnessSameDate ==
    /\ pc = "returned" /\ entry = "choose_best_hypothesis"
    /\ shape.sameDate
    /\ shape.how = "swapped"
    /\ sel.schema # NoSchema
    /\ ret.value.schema = sel.schema

\* how many times the word w occurs in the candidates
RECURSIVE Occurrences(_, _)
Occurrences(w, k) ==
    IF k > Len(detected) THEN 0
    ELSE Cardinality({ i \in 1..Len(detected[k]) : detected[k][i] = w }) + Occurrences(w, k + 1)

\* the positions in the candidates list of the candidates equal to the line
\* group g
EmittedAs(g) == { k \in 1..Len(detected) : detected[k] = g }

\* C30: in the output of detect_candidate_rows every candidate row has a
\* date and at least 2 amount tokens, and every line group, hence every
\* token, occurs in at most one candidate: a line that qualifies by itself
\* is emitted once, as it is, and is never extended or absorbed by the merge
\* pass, and a date-free line is absorbed by at most one merge.
C30_CandidatesDisjoint ==
    (pc = "assembled" /\ entry = "detect_candidate_rows") =>
        /\ \A k \in 1..Len(detected) :
               has_date(detected[k]) /\ count_amounts(detected[k]) >= 2
        /\ \A i \in 1..Len(words) : Occurrences(words[i], 1) <= 1
        /\ \A g \in GroupsOfPages :
               is_transaction_row(g) => Cardinality(EmittedAs(g)) = 1

\* a date line with one amount followed within the merge gap by a line that
\* qualifies by itself, and a merge elsewhere in the document: the
\* qualifying line is emitted once and not absorbed
C30_Witness ==
    /\ pc = "assembled" /\ entry = "detect_candidate_rows"
    /\ shape.kinds = << "date1", "full", "date", "amt2" >>
    /\ shape.gaps = << MERGE_GAP, MERGE_GAP, MERGE_GAP >>
    /\ shape.pageBreak = 0
    /\ Len(detected) = 2
    /\ \E g \in GroupsOfPages : is_transaction_row(g) /\ detected[1] = g
    /\ \A g \in GroupsOfPages : detected[2] # g

\* a date-free line between two date lines that both lack amounts: it is
\* absorbed by the one before it only
C30_WitnessBetweenDates ==
    /\ pc = "assembled" /\ entry = "detect_candidate_rows"
    /\ shape.kinds = << "date", "amt2", "date" >>
    /\ shape.gaps = << MERGE_GAP, MERGE_GAP >>
    /\ shape.pageBreak = 0
    /\ Len(detected) = 1
    /\ \A i \in 1..Len(words) : Occurrences(words[i], 1) = (IF words[i].text.k = "date" /\ words[i].text.d = 3 THEN 0 ELSE IF i <= 4 THEN 1 ELSE 0)

====
